---- MODULE Spec2Model ----
(***************************************************************************)
(* Model of llm-chatifier: the provider clients of chatifier/clients.py    *)
(* (history, configuration, send_message, test_connection, get_models,     *)
(* clear_history) and the connectivity probe of chatifier/utils.py.        *)
(*                                                                         *)
(* Strings built by the code with f-strings are modelled as sequences of   *)
(* their parts, so that two URLs or prompts are equal exactly when the     *)
(* same parts were concatenated in the same order.                         *)
(***************************************************************************)
EXTENDS Integers, Sequences, FiniteSets, TLC

\* Python's None.
None == "None"

\* Python truthiness of an optional string (None and "" are falsy).
Truthy(x) == x # None /\ x # ""

\* ------------------------------------------------------------------ bounds
\* send_message is offered while the history has room for one more exchange.
MaxHist == 4

\* ------------------------------------------------------------ input domains
Providers == {"openai", "ollama", "anthropic", "gemini", "cohere", "generic"}
Texts == {"a", "b"}
Replies == {"r1"}
Tokens == {None, "tok"}
ModelNames == {None, "m1"}
\* A base URL is a stem that does not end in "/" followed by n slashes.
BaseUrls == {[stem |-> "http://h:8080", slashes |-> n] : n \in {0, 1}}

\* Outcome of one HTTP request made through the client's httpx.Client: a
\* response (exc = "none") or a transport failure (httpx.RequestError raised).
NoKey == "NoKey"          \* the JSON has no value at the path the code reads
WrongType == "WrongType"  \* the JSON is not the container the code indexes
ClientStatuses == {200, 401, 500}
\* Body of a response, by what the code observes of it:
\*   json  - response.json() parses
\*   reply - the value at the provider's reply path (chat endpoints)
\*   err   - the message under 'error' / 'message' (extract_error_message)
\*   auth  - response.text.lower() contains one of the auth keywords
ReplyValues == Replies \cup {"", NoKey, WrongType}
Body(json, reply, err, auth) == [json |-> json, reply |-> reply, err |-> err, auth |-> auth]
Bodies ==
    {Body(FALSE, NoKey, None, a) : a \in BOOLEAN}                \* not JSON
    \cup {Body(TRUE, r, None, a) : r \in Replies, a \in BOOLEAN}  \* a reply
    \cup {Body(TRUE, "", None, FALSE)}                           \* an empty reply
    \cup {Body(TRUE, NoKey, e, FALSE) : e \in {None, "e1"}}      \* no reply, maybe an error
    \cup {Body(TRUE, WrongType, None, FALSE)}                    \* a JSON list or scalar
NoBody == [json |-> FALSE, reply |-> NoKey, err |-> None, auth |-> FALSE]
Responses == [exc : {"none"}, status : ClientStatuses, body : Bodies]
RequestError == [exc |-> "RequestError", status |-> 0, body |-> NoBody]
Outcomes == Responses \cup {RequestError}

\* ------------------------------------------------------------------- state
VARIABLES
    self,       \* the provider client: kind, base_url, token, model, history, chat_endpoint
    discovery,  \* the server's answers to GenericClient._discover_endpoints
    pending,    \* GenericClient.send_message in progress: text, next payload, requests
    last,       \* the last completed operation: op, text, history before, result, requests
    fresh,      \* after clear_history: a freshly constructed client, driven alike
    freshLast,  \* result and requests of the last operation on fresh
    probe,      \* one try_connection call: inputs and result
    call        \* one call of a module-level function or constructor: fn, args, pc, result

vars == <<self, discovery, pending, last, fresh, freshLast, probe, call>>

\* ------------------------------------------------------- results of a call
\* An exception message: the literal prefix of the f-string and, where the
\* code interpolates extract_error_message(response), that message.
NoDetail == [src |-> "none", text |-> "", status |-> 0]
Msg(prefix, detail) == [prefix |-> prefix, detail |-> detail]
NoMsg == Msg("", NoDetail)

\* What a call returned (value: a reply or None; models: get_models' list)
\* or raised (exc: the exception class; msg: its message).
Return(v) == [kind |-> "return", value |-> v, models |-> <<>>, exc |-> "", msg |-> NoMsg]
ReturnModels(ms) == [kind |-> "return", value |-> None, models |-> ms, exc |-> "", msg |-> NoMsg]
Raise(exc, m) == [kind |-> "raise", value |-> None, models |-> <<>>, exc |-> exc, msg |-> m]

\* ------------------------------------------------------------ BaseClient
rstrip(u) == [u EXCEPT !.slashes = 0]

BaseClient_init(kind, base_url, token, model) ==
    [kind |-> kind, base_url |-> rstrip(base_url), token |-> token,
     model |-> model, history |-> <<>>, chat_endpoint |-> None]

\* clear_history variants: one entry survives / the model is reset too.
clear_history_keeps_first(c) ==
    [c EXCEPT !.history = IF @ = <<>> THEN <<>> ELSE <<@[1]>>]
clear_history_resets_model(c) == [c EXCEPT !.history = <<>>, !.model = None]

clear_history(c) == [c EXCEPT !.history = <<>>]

Headers(auth, key, version) ==
    [content_type |-> "application/json", authorization |-> auth,
     x_api_key |-> key, anthropic_version |-> version]
NoHeaders == [content_type |-> None, authorization |-> <<>>,
              x_api_key |-> None, anthropic_version |-> None]

BaseClient_get_headers(c) ==
    Headers(IF Truthy(c.token) THEN <<"Bearer ", c.token>> ELSE <<>>, None, None)

AnthropicClient_get_headers(c) ==
    Headers(<<>>, IF Truthy(c.token) THEN c.token ELSE None, "2023-06-01")

get_headers(c) ==
    IF c.kind = "anthropic" THEN AnthropicClient_get_headers(c)
    ELSE BaseClient_get_headers(c)

\* A request: the url is the sequence of the parts the f-string joins; the
\* payload is the json= argument (kind "none" when the request has no body).
NoPayload == [kind |-> "none"]
Request(method, url, headers, payload) ==
    [method |-> method, url |-> url, headers |-> headers, payload |-> payload]

\* ------------------------------------------------------------------- utils
is_auth_error(resp) == resp.status \in {401, 403} \/ resp.body.auth

extract_error_message(resp) ==
    IF resp.body.json /\ resp.body.err # None
    THEN [src |-> "body", text |-> resp.body.err, status |-> 0]
    ELSE [src |-> "status", text |-> "HTTP ", status |-> resp.status]

UserMsg(text) == [role |-> "user", content |-> text]
AssistantMsg(reply) == [role |-> "assistant", content |-> reply]

\* self.history.append({"role": "user", ...}) followed by
\* self.history.append({"role": "assistant", ...}) once the reply is parsed.
append_exchange_swapped(history, text, reply) ==
    Append(Append(history, AssistantMsg(reply)), UserMsg(text))
append_exchange_overwrites(history, text, reply) ==
    <<UserMsg(text), AssistantMsg(reply)>>

append_exchange(history, text, reply) ==
    Append(Append(history, UserMsg(text)), AssistantMsg(reply))

\* Result of one call on a client: the client afterwards, what the call
\* returned or raised, and the requests it issued.
Outcome(c, result, requests) == [client |-> c, result |-> result, requests |-> requests]

\* The exception a chat call raises for a response body it cannot read:
\* KeyError, IndexError and JSONDecodeError are caught and re-raised as
\* "Invalid ... response format"; indexing a JSON value of the wrong type
\* raises TypeError, which no handler catches.
BadBody(resp) == ~resp.body.json \/ resp.body.reply \in {NoKey, WrongType}
RaiseBadBody(resp, prefix) ==
    IF resp.body.json /\ resp.body.reply = WrongType
    THEN Raise("TypeError", NoMsg)
    ELSE Raise("Exception", Msg(prefix, NoDetail))

\* ------------------------------------------------------------ OpenAIClient
OpenAIClient_send_message(c, text, out) ==
    LET \* line 97: the user message is appended before the request is made
        c1 == [c EXCEPT !.history = Append(@, UserMsg(text))]
        model_to_use == IF Truthy(c1.model) THEN c1.model ELSE "gpt-3.5-turbo"
        payload == [model |-> model_to_use, messages |-> c1.history, stream |-> FALSE]
        req == Request("POST", <<c1.base_url, "/v1/chat/completions">>,
                       get_headers(c1), payload)
    IN  IF out.exc # "none" THEN Outcome(c1, Raise("RequestError", NoMsg), <<req>>)
        ELSE IF out.status >= 400 THEN
            IF is_auth_error(out)
            THEN Outcome(c1, Raise("Exception",
                     Msg("Authentication failed: ", extract_error_message(out))), <<req>>)
            ELSE Outcome(c1, Raise("Exception",
                     Msg("API error: ", extract_error_message(out))), <<req>>)
        ELSE IF BadBody(out) THEN
            Outcome(c1, RaiseBadBody(out, "Invalid response format: "), <<req>>)
        ELSE Outcome([c1 EXCEPT !.history = Append(@, AssistantMsg(out.body.reply))],
                     Return(out.body.reply), <<req>>)

\* ------------------------------------------------------------ OllamaClient
\* context += f"User: {content}\n" / f"Assistant: {content}\n" per entry.
RECURSIVE ollama_context(_)
ollama_context(history) ==
    IF history = <<>> THEN <<>>
    ELSE LET msg == Head(history)
         IN  (IF msg.role = "user"
              THEN <<"User: ", msg.content, "\n">>
              ELSE <<"Assistant: ", msg.content, "\n">>)
             \o ollama_context(Tail(history))

OllamaClient_send_message(c, text, out) ==
    LET prompt == ollama_context(c.history) \o <<"User: ", text, "\nAssistant: ">>
        model_to_use == IF Truthy(c.model) THEN c.model ELSE "llama2"
        payload == [model |-> model_to_use, prompt |-> prompt, stream |-> FALSE]
        req == Request("POST", <<c.base_url, "/api/generate">>, NoHeaders, payload)
    IN  IF out.exc # "none" THEN Outcome(c, Raise("RequestError", NoMsg), <<req>>)
        ELSE IF out.status >= 400 THEN
            Outcome(c, Raise("Exception", Msg("", extract_error_message(out))), <<req>>)
        ELSE IF BadBody(out) THEN
            Outcome(c, RaiseBadBody(out, "Invalid response format: "), <<req>>)
        ELSE Outcome([c EXCEPT !.history = append_exchange(@, text, out.body.reply)],
                     Return(out.body.reply), <<req>>)

\* --------------------------------------------------------- AnthropicClient
AnthropicClient_send_message(c, text, out) ==
    LET messages == Append(SelectSeq(c.history, LAMBDA m : m.role # "system"),
                           UserMsg(text))
        model_to_use == IF Truthy(c.model) THEN c.model ELSE "claude-3-sonnet-20240229"
        payload == [model |-> model_to_use, max_tokens |-> 4000, messages |-> messages]
        req == Request("POST", <<c.base_url, "/v1/messages">>, get_headers(c), payload)
    IN  IF out.exc # "none" THEN Outcome(c, Raise("RequestError", NoMsg), <<req>>)
        ELSE IF out.status >= 400 THEN
            IF is_auth_error(out)
            THEN Outcome(c, Raise("Exception",
                     Msg("Authentication failed: ", extract_error_message(out))), <<req>>)
            ELSE Outcome(c, Raise("Exception",
                     Msg("API error: ", extract_error_message(out))), <<req>>)
        ELSE IF BadBody(out) THEN
            Outcome(c, RaiseBadBody(out, "Invalid response format: "), <<req>>)
        ELSE Outcome([c EXCEPT !.history = append_exchange(@, text, out.body.reply)],
                     Return(out.body.reply), <<req>>)

\* ------------------------------------------------------------ GeminiClient
gemini_contents(history) ==
    [i \in 1..Len(history) |->
        [role |-> IF history[i].role = "user" THEN "user" ELSE "model",
         parts |-> <<[text |-> history[i].content]>>]]

GeminiClient_send_message(c, text, out) ==
    IF ~Truthy(c.token)
    THEN Outcome(c, Raise("Exception", Msg("API key is required for Gemini", NoDetail)), <<>>)
    ELSE
    LET model_to_use == IF Truthy(c.model) THEN c.model ELSE "gemini-pro"
        contents == Append(gemini_contents(c.history),
                           [role |-> "user", parts |-> <<[text |-> text]>>])
        payload == [contents |-> contents]
        url == <<c.base_url, "/v1beta/models/", model_to_use,
                 ":generateContent?key=", c.token>>
        req == Request("POST", url, NoHeaders, payload)
    IN  IF out.exc # "none" THEN Outcome(c, Raise("RequestError", NoMsg), <<req>>)
        ELSE IF out.status >= 400 THEN
            Outcome(c, Raise("Exception",
                Msg("Gemini API error: ", extract_error_message(out))), <<req>>)
        ELSE IF BadBody(out) THEN
            Outcome(c, RaiseBadBody(out, "Invalid Gemini response format: "), <<req>>)
        ELSE Outcome([c EXCEPT !.history = append_exchange(@, text, out.body.reply)],
                     Return(out.body.reply), <<req>>)

\* ------------------------------------------------------------ CohereClient
cohere_chat_history(history) ==
    [i \in 1..Len(history) |->
        [role |-> IF history[i].role = "user" THEN "USER" ELSE "CHATBOT",
         message |-> history[i].content]]

CohereClient_send_message(c, text, out) ==
    IF ~Truthy(c.token)
    THEN Outcome(c, Raise("Exception", Msg("API token is required for Cohere", NoDetail)), <<>>)
    ELSE
    LET model_to_use == IF Truthy(c.model) THEN c.model ELSE "command"
        payload == [message |-> text, model |-> model_to_use,
                    chat_history |-> cohere_chat_history(c.history)]
        headers == Headers(<<"Bearer ", c.token>>, None, None)
        req == Request("POST", <<c.base_url, "/v1/chat">>, headers, payload)
    IN  IF out.exc # "none" THEN Outcome(c, Raise("RequestError", NoMsg), <<req>>)
        ELSE IF out.status >= 400 THEN
            Outcome(c, Raise("Exception",
                Msg("Cohere API error: ", extract_error_message(out))), <<req>>)
        ELSE IF BadBody(out) THEN
            Outcome(c, RaiseBadBody(out, "Invalid Cohere response format: "), <<req>>)
        ELSE Outcome([c EXCEPT !.history = append_exchange(@, text, out.body.reply)],
                     Return(out.body.reply), <<req>>)

\* ----------------------------------------------------------- GenericClient
test_endpoints == <<"/chat", "/api/chat", "/message", "/api/message", "/completion">>

\* _discover_endpoints: GET each candidate in order; disc[i] is the server's
\* answer for test_endpoints[i]. A transport failure is not caught here.
RECURSIVE discover_from(_, _, _, _)
discover_from(c, disc, i, requests) ==
    IF i > Len(test_endpoints)
    THEN Outcome([c EXCEPT !.chat_endpoint = "/chat"], Return(None), requests)
    ELSE LET endpoint == test_endpoints[i]
             req == Request("GET", <<c.base_url, endpoint>>, get_headers(c), NoPayload)
         IN  IF disc[i].exc # "none"
             THEN Outcome(c, Raise("RequestError", NoMsg), Append(requests, req))
             ELSE IF disc[i].status < 500
             THEN Outcome([c EXCEPT !.chat_endpoint = endpoint], Return(None),
                          Append(requests, req))
             ELSE discover_from(c, disc, i + 1, Append(requests, req))

discover_endpoints(c, disc) == discover_from(c, disc, 1, <<>>)

GenericClient_init(base_url, token, disc) ==
    discover_endpoints(BaseClient_init("generic", base_url, token, None), disc)

generic_payloads(text) ==
    << [messages |-> <<UserMsg(text)>>, model |-> "default"],
       [message |-> text, user |-> "user"],
       [text |-> text],
       [query |-> text] >>

\* One iteration of the payload loop of GenericClient.send_message, for
\* payload i and the server's answer out. done: the call returned.
generic_try_payload(c, text, i, out) ==
    LET req == Request("POST", <<c.base_url, c.chat_endpoint>>, get_headers(c),
                       generic_payloads(text)[i])
        reply == out.body.reply
    IN  IF /\ out.exc = "none"
           /\ out.status < 400
           /\ out.body.json
           /\ reply \notin {NoKey, WrongType}
           /\ reply # ""
        THEN [done |-> TRUE, request |-> req, result |-> Return(reply),
              client |-> [c EXCEPT !.history = append_exchange(@, text, reply)]]
        ELSE [done |-> FALSE, request |-> req, result |-> Return(None), client |-> c]

generic_exhausted == Raise("Exception", Msg("Unable to get response from generic API", NoDetail))

\* ------------------------------------------------------------ construction
\* A client constructed directly from its class (the server answers disc to
\* the generic client's discovery).
Construct(kind, base_url, token, model, disc) ==
    IF kind = "generic"
    THEN GenericClient_init(base_url, token, disc).client
    ELSE BaseClient_init(kind, base_url, token, model)

\* ---------------------------------------------------------- send_message
send_message(c, text, out) ==
    CASE c.kind = "openai" -> OpenAIClient_send_message(c, text, out)
      [] c.kind = "ollama" -> OllamaClient_send_message(c, text, out)
      [] c.kind = "anthropic" -> AnthropicClient_send_message(c, text, out)
      [] c.kind = "gemini" -> GeminiClient_send_message(c, text, out)
      [] c.kind = "cohere" -> CohereClient_send_message(c, text, out)

\* -------------------------------------------------------- test_connection
test_connection(c, out) ==
    LET raised(req) == Outcome(c, Raise("RequestError", NoMsg), <<req>>)
        ok(req) == Outcome(c, Return(None), <<req>>)
        fail(req, m) == Outcome(c, Raise("Exception", m), <<req>>)
        extracted == Msg("", extract_error_message(out))
    IN
    CASE c.kind = "openai" ->
           LET req == Request("GET", <<c.base_url, "/v1/models">>, get_headers(c), NoPayload)
           IN  IF out.exc # "none" THEN raised(req)
               ELSE IF is_auth_error(out)
               THEN fail(req, Msg("Authentication required or invalid token", NoDetail))
               ELSE IF out.status >= 400 THEN fail(req, extracted)
               ELSE ok(req)
      [] c.kind = "ollama" ->
           LET req == Request("GET", <<c.base_url, "/api/tags">>, NoHeaders, NoPayload)
           IN  IF out.exc # "none" THEN raised(req)
               ELSE IF out.status >= 400 THEN fail(req, extracted)
               ELSE ok(req)
      [] c.kind = "anthropic" ->
           LET payload == [model |-> "claude-3-sonnet-20240229", max_tokens |-> 1,
                           messages |-> <<UserMsg("Hi")>>]
               req == Request("POST", <<c.base_url, "/v1/messages">>, get_headers(c), payload)
           IN  IF out.exc # "none" THEN raised(req)
               ELSE IF is_auth_error(out)
               THEN fail(req, Msg("Authentication required or invalid API key", NoDetail))
               ELSE IF out.status >= 400 THEN fail(req, extracted)
               ELSE ok(req)
      [] c.kind = "generic" ->
           LET req == Request("GET", <<c.base_url, c.chat_endpoint>>, get_headers(c), NoPayload)
           IN  IF out.exc # "none" THEN raised(req)
               ELSE IF out.status >= 500
               THEN fail(req, Msg("Server error: ",
                                  [src |-> "status", text |-> "", status |-> out.status]))
               ELSE ok(req)
      [] c.kind = "gemini" ->
           IF ~Truthy(c.token)
           THEN Outcome(c, Raise("Exception", Msg("API key is required for Gemini", NoDetail)), <<>>)
           ELSE
           LET req == Request("GET", <<c.base_url, "/v1beta/models?key=", c.token>>,
                              NoHeaders, NoPayload)
           IN  IF out.exc # "none" THEN raised(req)
               ELSE IF out.status >= 400 THEN fail(req, extracted)
               ELSE ok(req)
      [] c.kind = "cohere" ->
           IF ~Truthy(c.token)
           THEN Outcome(c, Raise("Exception", Msg("API token is required for Cohere", NoDetail)), <<>>)
           ELSE
           LET payload == [message |-> "Hello", model |-> "command"]
               req == Request("POST", <<c.base_url, "/v1/chat">>,
                              Headers(<<"Bearer ", c.token>>, None, None), payload)
           IN  IF out.exc # "none" THEN raised(req)
               ELSE IF out.status >= 400 THEN fail(req, extracted)
               ELSE ok(req)

\* ------------------------------------------------------------- get_models
\* A models listing: json (the body parses) and the entries of its list,
\* each with the id/name it carries (NoKey: the key is missing), whether the
\* name has the "models/" prefix and whether it supports generateContent.
ModelEntries ==
    { [id |-> "m1", prefixed |-> TRUE, gen |-> TRUE],
      [id |-> "m2", prefixed |-> FALSE, gen |-> TRUE],
      [id |-> "m1", prefixed |-> FALSE, gen |-> FALSE],
      [id |-> NoKey, prefixed |-> FALSE, gen |-> TRUE] }
ModelListings ==
    {<<>>} \cup {<<e>> : e \in ModelEntries}
    \cup {<<[id |-> "m2", prefixed |-> FALSE, gen |-> TRUE],
            [id |-> "m1", prefixed |-> TRUE, gen |-> TRUE]>>}
ModelsOutcomes ==
    [exc : {"none"}, status : {200, 500}, json : {TRUE}, models : ModelListings]
    \cup {[exc |-> "none", status |-> 200, json |-> FALSE, models |-> <<>>]}
    \cup {[exc |-> "RequestError", status |-> 0, json |-> FALSE, models |-> <<>>]}

\* Python's order on the model names that occur.
Rank(name) ==
    CASE name = "" -> 0
      [] name = "m1" -> 1
      [] name = "m2" -> 2
      [] name = "models/m1" -> 3
      [] OTHER -> 4

RECURSIVE insert_sorted(_, _)
insert_sorted(x, q) ==
    IF q = <<>> THEN <<x>>
    ELSE IF Rank(x) < Rank(Head(q)) THEN <<x>> \o q
    ELSE <<Head(q)>> \o insert_sorted(x, Tail(q))

RECURSIVE sorted(_)
sorted(q) == IF q = <<>> THEN <<>> ELSE insert_sorted(Head(q), sorted(Tail(q)))

\* The full name an entry carries ("models/" + id when prefixed).
entry_name(e) == IF e.prefixed /\ e.id = "m1" THEN "models/m1" ELSE e.id

\* The list comprehension [model[key] for model in ...] of the OpenAI and
\* Ollama clients; a missing key raises KeyError, caught as a parse failure.
listed_or_fallback(out, fallback) ==
    IF ~out.json \/ \E i \in 1..Len(out.models) : out.models[i].id = NoKey
    THEN fallback
    ELSE LET models == [i \in 1..Len(out.models) |-> entry_name(out.models[i])]
         IN  IF models # <<>> THEN sorted(models) ELSE fallback

gemini_models(entries) ==
    LET named == [i \in 1..Len(entries) |->
                    [name |-> IF entries[i].id = NoKey THEN ""
                              ELSE entries[i].id,   \* name[7:] drops "models/"
                     gen |-> entries[i].gen]]
        kept == SelectSeq(named, LAMBDA e : e.gen)
    IN  [i \in 1..Len(kept) |-> kept[i].name]

get_models(c, out) ==
    CASE c.kind = "openai" ->
           LET req == Request("GET", <<c.base_url, "/v1/models">>, get_headers(c), NoPayload)
               fallback == <<"gpt-3.5-turbo", "gpt-4">>
           IN  IF out.exc # "none" THEN Outcome(c, Raise("RequestError", NoMsg), <<req>>)
               ELSE IF out.status >= 400 THEN Outcome(c, ReturnModels(fallback), <<req>>)
               ELSE Outcome(c, ReturnModels(listed_or_fallback(out, fallback)), <<req>>)
      [] c.kind = "ollama" ->
           LET req == Request("GET", <<c.base_url, "/api/tags">>, NoHeaders, NoPayload)
               fallback == <<"llama2">>
           IN  IF out.exc # "none" THEN Outcome(c, Raise("RequestError", NoMsg), <<req>>)
               ELSE IF out.status >= 400 THEN Outcome(c, ReturnModels(fallback), <<req>>)
               ELSE Outcome(c, ReturnModels(listed_or_fallback(out, fallback)), <<req>>)
      [] c.kind = "anthropic" ->
           Outcome(c, ReturnModels(<<"claude-3-opus-20240229", "claude-3-sonnet-20240229",
                                     "claude-3-haiku-20240307", "claude-2.1", "claude-2.0",
                                     "claude-instant-1.2">>), <<>>)
      [] c.kind = "generic" -> Outcome(c, ReturnModels(<<>>), <<>>)
      [] c.kind = "gemini" ->
           IF ~Truthy(c.token) THEN Outcome(c, ReturnModels(<<"gemini-pro">>), <<>>)
           ELSE
           LET req == Request("GET", <<c.base_url, "/v1beta/models?key=", c.token>>,
                              NoHeaders, NoPayload)
           IN  IF out.exc # "none" THEN Outcome(c, Raise("RequestError", NoMsg), <<req>>)
               ELSE IF out.status >= 400
               THEN Outcome(c, ReturnModels(<<"gemini-pro", "gemini-pro-vision">>), <<req>>)
               ELSE IF ~out.json THEN Outcome(c, ReturnModels(<<"gemini-pro">>), <<req>>)
               ELSE LET models == gemini_models(out.models)
                    IN  Outcome(c, ReturnModels(IF models # <<>> THEN sorted(models)
                                                ELSE <<"gemini-pro">>), <<req>>)
      [] c.kind = "cohere" ->
           Outcome(c, ReturnModels(<<"command", "command-light", "command-nightly",
                                     "command-r", "command-r-plus">>), <<>>)

\* --------------------------------------------------------- try_connection
\* What the server does with one request of the probe: a response with a
\* status, httpx.RequestError (refused, DNS, timeout), or any other error.
ProbeStatuses == {200, 401, 403, 404, 405, 499, 500, 503}
ProbeOutcomes ==
    [exc : {"none"}, status : ProbeStatuses]
    \cup {[exc |-> e, status |-> 0] : e \in {"RequestError", "OtherError"}}
ProbeUrls == {"https://h:8080/v1/models", "http://h:8080/chat"}
NoResponse == [method |-> None, status |-> 0]

ProbeResult(raised, ok, response, log) ==
    [raised |-> raised, ok |-> ok, response |-> response, log |-> log]

\* try_methods with a 405 answer to HEAD taken as the probe's result.
RECURSIVE try_methods_no_fallback(_, _, _, _)
try_methods_no_fallback(url, srv, methods, log) ==
    IF methods = <<>>
    THEN ProbeResult("none", FALSE, NoResponse, log)
    ELSE LET method == Head(methods)
             out == srv[method]
             log2 == Append(log, [method |-> method, url |-> url])
         IN  IF out.exc = "RequestError"
             THEN try_methods_no_fallback(url, srv, Tail(methods), log2)
             ELSE IF out.exc = "OtherError"
             THEN ProbeResult("none", FALSE, NoResponse, log2)
             ELSE IF out.status < 500
             THEN ProbeResult("none", TRUE, [method |-> method, status |-> out.status], log2)
             ELSE try_methods_no_fallback(url, srv, Tail(methods), log2)

\* try_methods without the outer except Exception handler.
RECURSIVE try_methods_uncaught(_, _, _, _)
try_methods_uncaught(url, srv, methods, log) ==
    IF methods = <<>>
    THEN ProbeResult("none", FALSE, NoResponse, log)
    ELSE LET method == Head(methods)
             out == srv[method]
             log2 == Append(log, [method |-> method, url |-> url])
         IN  IF out.exc = "RequestError"
             THEN try_methods_uncaught(url, srv, Tail(methods), log2)
             ELSE IF out.exc = "OtherError"
             THEN ProbeResult("Exception", FALSE, NoResponse, log2)
             ELSE IF out.status < 500
             THEN IF out.status = 405 /\ method = "HEAD"
                  THEN try_methods_uncaught(url, srv, Tail(methods), log2)
                  ELSE ProbeResult("none", TRUE,
                                   [method |-> method, status |-> out.status], log2)
             ELSE try_methods_uncaught(url, srv, Tail(methods), log2)

\* The loop over ['HEAD', 'GET'] (lines 37-48) and what follows it; srv maps
\* a method to the server's outcome for it, log is the requests issued.
RECURSIVE try_methods(_, _, _, _)
try_methods(url, srv, methods, log) ==
    IF methods = <<>>
    THEN ProbeResult("none", FALSE, NoResponse, log)                  \* line 50
    ELSE LET method == Head(methods)
             out == srv[method]
             log2 == Append(log, [method |-> method, url |-> url])
         IN  IF out.exc = "RequestError"
             THEN try_methods(url, srv, Tail(methods), log2)          \* lines 47-48
             ELSE IF out.exc = "OtherError"
             THEN ProbeResult("none", FALSE, NoResponse, log2)        \* lines 52-54
             ELSE IF out.status < 500
             THEN IF out.status = 405 /\ method = "HEAD"
                  THEN try_methods(url, srv, Tail(methods), log2)     \* line 44
                  ELSE ProbeResult("none", TRUE,
                                   [method |-> method, status |-> out.status], log2)
             ELSE try_methods(url, srv, Tail(methods), log2)

try_connection(httpx, url, srv) ==
    IF ~httpx
    THEN ProbeResult("ImportError", FALSE, NoResponse, <<>>)          \* lines 31-32
    ELSE try_methods(url, srv, <<"HEAD", "GET">>, <<>>)

\* ------------------------------------------------------------------- Init
DiscoveryOutcomes == [exc : {"none"}, status : {404, 503}]
\* The first k candidates answer 503, the others 404.
DiscoveryProfiles ==
    {[i \in 1..Len(test_endpoints) |->
        [exc |-> "none", status |-> IF i <= k THEN 503 ELSE 404]] : k \in 0..Len(test_endpoints)}
NoDiscovery == [i \in 1..Len(test_endpoints) |-> [exc |-> "none", status |-> 404]]

Idle == [active |-> FALSE, text |-> "", i |-> 0, requests |-> <<>>, frequests |-> <<>>]
NoClient == BaseClient_init("none", [stem |-> "", slashes |-> 0], None, None)
NoFresh == [active |-> FALSE, client |-> NoClient]
NoLast == [result |-> Return(None), requests |-> <<>>]
Done(op, text, before, result, requests) ==
    [op |-> op, text |-> text, before |-> before, result |-> result, requests |-> requests]

ProbeIdle == [pc |-> "idle", httpx |-> TRUE, url |-> "", srv |-> [m \in {"HEAD", "GET"} |-> [exc |-> "none", status |-> 200]],
              result |-> ProbeResult("none", FALSE, NoResponse, <<>>)]

InitClient ==
    /\ \E kind \in Providers, base_url \in BaseUrls, token \in Tokens, model \in ModelNames :
          /\ kind = "generic" => model = None
          /\ discovery \in (IF kind = "generic" THEN DiscoveryProfiles ELSE {NoDiscovery})
          /\ self = Construct(kind, base_url, token, model, discovery)
    /\ pending = Idle
    /\ last = Done("init", "", <<>>, Return(None), <<>>)
    /\ fresh = NoFresh
    /\ freshLast = NoLast

CallIdle == [fn |-> "none", pc |-> "idle"]

Init == InitClient /\ probe = ProbeIdle /\ call = CallIdle

\* No client is in use.
NoSession ==
    /\ self = Construct("openai", [stem |-> "http://h:8080", slashes |-> 0], None, None, NoDiscovery)
    /\ discovery = NoDiscovery
    /\ pending = Idle
    /\ last = Done("init", "", <<>>, Return(None), <<>>)
    /\ fresh = NoFresh
    /\ freshLast = NoLast

InitProbe ==
    /\ NoSession
    /\ call = CallIdle
    /\ \E httpx \in BOOLEAN, url \in ProbeUrls, srv \in [{"HEAD", "GET"} -> ProbeOutcomes] :
          probe = [pc |-> "ready", httpx |-> httpx, url |-> url, srv |-> srv,
                   result |-> ProbeResult("none", FALSE, NoResponse, <<>>)]

\* ---------------------------------------------------------------- actions
clientVars == <<self, discovery, pending, last, fresh, freshLast>>

\* The same call on the fresh client, when there is one.
Mirror(r) ==
    IF fresh.active
    THEN /\ fresh' = [fresh EXCEPT !.client = r.client]
         /\ freshLast' = [result |-> r.result, requests |-> r.requests]
    ELSE UNCHANGED <<fresh, freshLast>>

\* client.send_message(user_input) of the chat loop, for every client but
\* the generic one.
SendMessage ==
    /\ self.kind # "generic"
    /\ Len(self.history) + 2 <= MaxHist
    /\ \E text \in Texts, out \in Outcomes :
          LET r == send_message(self, text, out)
          IN  /\ self' = r.client
              /\ last' = Done("send_message", text, self.history, r.result, r.requests)
              /\ Mirror(send_message(fresh.client, text, out))
    /\ UNCHANGED <<discovery, pending, probe, call>>

\* GenericClient.send_message is entered: the payloads are built.
GenericSendBegin ==
    /\ self.kind = "generic"
    /\ ~pending.active
    /\ Len(self.history) + 2 <= MaxHist
    /\ \E text \in Texts :
          pending' = [active |-> TRUE, text |-> text, i |-> 1,
                      requests |-> <<>>, frequests |-> <<>>]
    /\ UNCHANGED <<self, discovery, last, fresh, freshLast, probe, call>>

\* One iteration of its payload loop; after the last payload the call raises.
GenericSendStep ==
    /\ pending.active
    /\ \E out \in Outcomes :
          LET t == generic_try_payload(self, pending.text, pending.i, out)
              ft == generic_try_payload(fresh.client, pending.text, pending.i, out)
              requests == Append(pending.requests, t.request)
              frequests == Append(pending.frequests, ft.request)
              exhausted == pending.i = Len(generic_payloads(pending.text))
          IN  IF t.done \/ exhausted
              THEN /\ self' = t.client
                   /\ last' = Done("send_message", pending.text, self.history,
                                   IF t.done THEN t.result ELSE generic_exhausted, requests)
                   /\ pending' = Idle
                   /\ Mirror([client |-> ft.client,
                              result |-> IF ft.done THEN ft.result ELSE generic_exhausted,
                              requests |-> frequests])
              ELSE /\ pending' = [pending EXCEPT !.i = @ + 1, !.requests = requests,
                                                 !.frequests = frequests]
                   /\ UNCHANGED <<self, last, fresh, freshLast>>
    /\ UNCHANGED <<discovery, probe, call>>

TestConnection ==
    /\ ~pending.active
    /\ \E out \in Outcomes :
          LET r == test_connection(self, out)
          IN  /\ self' = r.client
              /\ last' = Done("test_connection", "", self.history, r.result, r.requests)
              /\ Mirror(test_connection(fresh.client, out))
    /\ UNCHANGED <<discovery, pending, probe, call>>

GetModels ==
    /\ ~pending.active
    /\ \E out \in ModelsOutcomes :
          LET r == get_models(self, out)
          IN  /\ self' = r.client
              /\ last' = Done("get_models", "", self.history, r.result, r.requests)
              /\ Mirror(get_models(fresh.client, out))
    /\ UNCHANGED <<discovery, pending, probe, call>>

\* client.token = ... (cli.py line 82, ui.py line 182)
SetToken ==
    /\ ~pending.active
    /\ \E token \in Tokens :
          /\ self' = [self EXCEPT !.token = token]
          /\ Mirror([client |-> [fresh.client EXCEPT !.token = token],
                     result |-> Return(None), requests |-> <<>>])
    /\ last' = Done("set_token", "", self.history, Return(None), <<>>)
    /\ UNCHANGED <<discovery, pending, probe, call>>

\* client.model = ... (cli.py lines 100, 119, 126)
SetModel ==
    /\ ~pending.active
    /\ \E model \in ModelNames \ {None} :
          /\ self' = [self EXCEPT !.model = model]
          /\ Mirror([client |-> [fresh.client EXCEPT !.model = model],
                     result |-> Return(None), requests |-> <<>>])
    /\ last' = Done("set_model", "", self.history, Return(None), <<>>)
    /\ UNCHANGED <<discovery, pending, probe, call>>

\* A client newly constructed with the configuration c has now.
FreshLike(c, disc) ==
    [Construct(c.kind, c.base_url, c.token, c.model, disc) EXCEPT !.model = c.model]

\* /clear of the chat loop (ui.py line 155).
ClearHistory ==
    /\ ~pending.active
    /\ self' = clear_history(self)
    /\ last' = Done("clear_history", "", self.history, Return(None), <<>>)
    /\ fresh' = [active |-> TRUE, client |-> FreshLike(self', discovery)]
    /\ freshLast' = NoLast
    /\ UNCHANGED <<discovery, pending, probe, call>>

Next ==
    \/ SendMessage
    \/ GenericSendBegin
    \/ GenericSendStep
    \/ TestConnection
    \/ GetModels
    \/ SetToken
    \/ SetModel
    \/ ClearHistory

Spec == Init /\ [][Next]_vars

\* One call of try_connection(url) against a server that behaves as srv.
ProbeCall ==
    /\ probe.pc = "ready"
    /\ probe' = [probe EXCEPT !.pc = "done",
                              !.result = try_connection(probe.httpx, probe.url, probe.srv)]
    /\ UNCHANGED <<clientVars, call>>

NextProbe == ProbeCall

SpecProbe == InitProbe /\ [][NextProbe]_vars

\* ========================================================= build_base_url
\* A URL is the sequence of the parts the f-string joins.
build_base_url_any_default(host, port, use_https) ==
    LET scheme == IF use_https THEN "https" ELSE "http"
    IN  IF port = 443 \/ port = 80
        THEN <<scheme, "://", host>>
        ELSE <<scheme, "://", host, ":", port>>

build_base_url(host, port, use_https) ==
    LET scheme == IF use_https THEN "https" ELSE "http"
    IN  IF (use_https /\ port = 443) \/ (~use_https /\ port = 80)
        THEN <<scheme, "://", host>>
        ELSE <<scheme, "://", host, ":", port>>

\* ============================================================== detect_api
\* The dict API_ENDPOINTS, in its insertion order.
API_ENDPOINTS ==
    << [api_type |-> "openai", endpoints |-> <<"/v1/models", "/v1/chat/completions">>],
       [api_type |-> "anthropic", endpoints |-> <<"/v1/messages", "/v1/models">>],
       [api_type |-> "ollama", endpoints |-> <<"/api/tags", "/api/generate">>],
       [api_type |-> "gemini", endpoints |-> <<"/v1beta/models",
                                               "/v1beta/models/gemini-pro:generateContent">>],
       [api_type |-> "cohere", endpoints |-> <<"/v1/chat">>],
       [api_type |-> "generic", endpoints |-> <<"/chat", "/api/chat", "/message",
                                                "/api/message">>] >>

DEFAULT_PORTS == <<8080, 8000, 3000, 5000, 11434, 80, 443>>

\* port=None of detect_api.
NoPort == -1

\* The server behind a host: the connections (scheme, port, path) at which
\* it answers, and how. Where it answers: HEAD 200 (mode "head"), or HEAD
\* 405 and GET 401 (mode "get"). Elsewhere: the connection is refused (mode
\* "head"), or HEAD and GET are answered 503 (mode "get").
Conn(https, port, path) == [https |-> https, port |-> port, path |-> path]

\* The connection a URL names: an omitted port is the scheme's default.
ConnOf(url) ==
    LET https == url[1] = "https"
    IN  Conn(https,
             IF Len(url) = 6 THEN url[5] ELSE IF https THEN 443 ELSE 80,
             url[Len(url)])

ServerFor(server, url) ==
    LET answer(s) == [exc |-> "none", status |-> s]
        refused == [exc |-> "RequestError", status |-> 0]
    IN  IF ConnOf(url) \in server.live
        THEN IF server.mode = "head"
             THEN [m \in {"HEAD", "GET"} |-> answer(200)]
             ELSE [m \in {"HEAD", "GET"} |-> IF m = "HEAD" THEN answer(405) ELSE answer(401)]
        ELSE IF server.mode = "head"
             THEN [m \in {"HEAD", "GET"} |-> refused]
             ELSE [m \in {"HEAD", "GET"} |-> answer(503)]

\* One entry of the trace of a detect_api call: the loop variables and the
\* URL of a probe, and what try_connection returned for it.
Probed(test_port, use_https, api_type, endpoint, url, success) ==
    [port |-> test_port, https |-> use_https, api_type |-> api_type,
     endpoint |-> endpoint, url |-> url, success |-> success]

NoBaseUrl == <<>>
Detected(api_type, host, port, base_url, log) ==
    [found |-> TRUE, api_type |-> api_type, host |-> host, port |-> port,
     base_url |-> base_url, log |-> log]
NotDetected(log) ==
    [found |-> FALSE, api_type |-> None, host |-> None, port |-> NoPort,
     base_url |-> NoBaseUrl, log |-> log]

\* for endpoint in endpoints (lines 54-67)
RECURSIVE detect_endpoints(_, _, _, _, _, _, _, _)
detect_endpoints(server, host, test_port, use_https, base_url, api_type, endpoints, log) ==
    IF endpoints = <<>> THEN NotDetected(log)
    ELSE LET endpoint == Head(endpoints)
             url == base_url \o <<endpoint>>
             success == try_connection(TRUE, url, ServerFor(server, url)).ok
             log2 == Append(log, Probed(test_port, use_https, api_type, endpoint, url, success))
         IN  IF success
             THEN Detected(api_type, host, test_port, base_url, log2)
             ELSE detect_endpoints(server, host, test_port, use_https, base_url, api_type,
                                   Tail(endpoints), log2)

RECURSIVE detect_types_reversed(_, _, _, _, _, _, _)
detect_types_reversed(server, host, test_port, use_https, base_url, types, log) ==
    IF types = <<>> THEN NotDetected(log)
    ELSE LET t == types[Len(types)]
             r == detect_endpoints(server, host, test_port, use_https, base_url,
                                   t.api_type, t.endpoints, log)
         IN  IF r.found THEN r
             ELSE detect_types_reversed(server, host, test_port, use_https, base_url,
                                        SubSeq(types, 1, Len(types) - 1), r.log)

\* for api_type, endpoints in API_ENDPOINTS.items() (line 53)
RECURSIVE detect_types(_, _, _, _, _, _, _)
detect_types(server, host, test_port, use_https, base_url, types, log) ==
    IF types = <<>> THEN NotDetected(log)
    ELSE LET r == detect_endpoints(server, host, test_port, use_https, base_url,
                                   Head(types).api_type, Head(types).endpoints, log)
         IN  IF r.found THEN r
             ELSE detect_types(server, host, test_port, use_https, base_url, Tail(types), r.log)

\* The scheme loop with one retry of a base URL at which nothing answered.
RECURSIVE detect_protocols_retrying(_, _, _, _, _)
detect_protocols_retrying(server, host, test_port, protocols, log) ==
    IF protocols = <<>> THEN NotDetected(log)
    ELSE LET use_https == Head(protocols)
             base_url == build_base_url(host, test_port, use_https)
             r == detect_types(server, host, test_port, use_https, base_url, API_ENDPOINTS, log)
             again == IF r.found THEN r
                      ELSE detect_types(server, host, test_port, use_https, base_url,
                                        API_ENDPOINTS, r.log)
         IN  IF again.found THEN again
             ELSE detect_protocols_retrying(server, host, test_port, Tail(protocols), again.log)

\* for use_https in protocols (lines 48-49)
RECURSIVE detect_protocols(_, _, _, _, _)
detect_protocols(server, host, test_port, protocols, log) ==
    IF protocols = <<>> THEN NotDetected(log)
    ELSE LET use_https == Head(protocols)
             base_url == build_base_url(host, test_port, use_https)
             r == detect_types(server, host, test_port, use_https, base_url, API_ENDPOINTS, log)
         IN  IF r.found THEN r
             ELSE detect_protocols(server, host, test_port, Tail(protocols), r.log)

\* The loop over the ports with the scheme order following the hint.
RECURSIVE detect_ports_hinted(_, _, _, _, _)
detect_ports_hinted(server, host, ports, prefer_https, log) ==
    IF ports = <<>> THEN NotDetected(log)
    ELSE LET protocols == IF prefer_https THEN <<TRUE, FALSE>> ELSE <<FALSE, TRUE>>
             r == detect_protocols(server, host, Head(ports), protocols, log)
         IN  IF r.found THEN r
             ELSE detect_ports_hinted(server, host, Tail(ports), prefer_https, r.log)

\* for test_port in ports_to_try (lines 43-47)
RECURSIVE detect_ports(_, _, _, _, _)
detect_ports(server, host, ports, prefer_https, log) ==
    IF ports = <<>> THEN NotDetected(log)                           \* line 70
    ELSE LET protocols == IF prefer_https THEN <<TRUE, FALSE>> ELSE <<TRUE, FALSE>>
             r == detect_protocols(server, host, Head(ports), protocols, log)
         IN  IF r.found THEN r
             ELSE detect_ports(server, host, Tail(ports), prefer_https, r.log)

\* ports_to_try = [port] if port else DEFAULT_PORTS (0 is falsy, like None)
ports_to_try(port) == IF port # NoPort /\ port # 0 THEN <<port>> ELSE DEFAULT_PORTS

detect_api_guessing(server, host, port, prefer_https) ==
    LET r == detect_ports(server, host, ports_to_try(port), prefer_https, <<>>)
    IN  IF r.found THEN r
        ELSE Detected("generic", host, 8080, build_base_url(host, 8080, FALSE), r.log)

detect_api_plaintext_url(server, host, port, prefer_https) ==
    LET r == detect_ports(server, host, ports_to_try(port), prefer_https, <<>>)
    IN  IF r.found THEN [r EXCEPT !.base_url = build_base_url(host, r.port, FALSE)]
        ELSE r

detect_api(server, host, port, prefer_https) ==
    detect_ports(server, host, ports_to_try(port), prefer_https, <<>>)

\* One call of detect_api against one server.
MaxLive == 2
DetectHost == "h"
DetectPortArgs == {NoPort, 0, 443, 8080}
LivePorts == {443, 8080}
LivePaths == {"/v1/models", "/v1/messages", "/api/tags", "/message"}
LiveConns == {Conn(s, p, e) : s \in BOOLEAN, p \in LivePorts, e \in LivePaths}
Servers ==
    {[live |-> l, mode |-> m] :
        l \in {x \in SUBSET LiveConns : Cardinality(x) <= MaxLive},
        m \in {"head", "get"}}

InitDetect ==
    /\ NoSession
    /\ probe = ProbeIdle
    /\ \E server \in Servers, port \in DetectPortArgs, prefer_https \in BOOLEAN :
          call = [fn |-> "detect_api", pc |-> "ready", server |-> server,
                  host |-> DetectHost, port |-> port, prefer_https |-> prefer_https,
                  result |-> NotDetected(<<>>)]

DetectCall ==
    /\ call.fn = "detect_api"
    /\ call.pc = "ready"
    /\ call' = [call EXCEPT !.pc = "done",
                            !.result = detect_api(call.server, call.host, call.port,
                                                  call.prefer_https)]
    /\ UNCHANGED <<clientVars, probe>>

NextDetect == DetectCall
SpecDetect == InitDetect /\ [][NextDetect]_vars

\* One call of build_base_url.
UrlHosts == {"localhost", "example.com", "10.0.0.1"}
UrlPorts == {0, 1, 80, 443, 3000, 8000, 8080, 8443, 11434, 65535}

InitUrl ==
    /\ NoSession
    /\ probe = ProbeIdle
    /\ \E host \in UrlHosts, port \in UrlPorts, use_https \in BOOLEAN :
          call = [fn |-> "build_base_url", pc |-> "ready", host |-> host, port |-> port,
                  use_https |-> use_https, result |-> NoBaseUrl]

UrlCall ==
    /\ call.fn = "build_base_url"
    /\ call.pc = "ready"
    /\ call' = [call EXCEPT !.pc = "done",
                            !.result = build_base_url(call.host, call.port, call.use_https)]
    /\ UNCHANGED <<clientVars, probe>>

NextUrl == UrlCall
SpecUrl == InitUrl /\ [][NextUrl]_vars

\* ------------------------------------------------ calls of client methods
\* One call of a method of a freshly constructed client, against one answer
\* of the server.
CallUrl == [stem |-> "http://h:8080", slashes |-> 0]
CallClients ==
    {Construct(kind, CallUrl, token, None, NoDiscovery) : kind \in Providers, token \in Tokens}
CheckStatuses == {200, 401, 403, 500}
CheckOutcomes == [exc : {"none"}, status : CheckStatuses, body : Bodies] \cup {RequestError}

\* cli.py lines 77-78: the caller takes a failure of test_connection for an
\* authentication failure when str(e).lower() contains 'auth', 'token' or
\* 'unauthorized'. The reason phrase of 401 is "Unauthorized".
auth_in_message(m) ==
    \/ m.prefix \in {"Authentication required or invalid token",
                     "Authentication required or invalid API key",
                     "API token is required for Cohere"}
    \/ m.detail.src = "status" /\ m.detail.status = 401

InitCheck ==
    /\ NoSession
    /\ probe = ProbeIdle
    /\ \E c \in CallClients, out \in CheckOutcomes :
          call = [fn |-> "test_connection", pc |-> "ready", client |-> c, out |-> out,
                  result |-> Return(None), requests |-> <<>>]

CheckCall ==
    /\ call.fn = "test_connection"
    /\ call.pc = "ready"
    /\ LET r == test_connection(call.client, call.out)
       IN  call' = [call EXCEPT !.pc = "done", !.client = r.client, !.result = r.result,
                                !.requests = r.requests]
    /\ UNCHANGED <<clientVars, probe>>

NextCheck == CheckCall
SpecCheck == InitCheck /\ [][NextCheck]_vars

InitModels ==
    /\ NoSession
    /\ probe = ProbeIdle
    /\ \E c \in CallClients, out \in ModelsOutcomes :
          call = [fn |-> "get_models", pc |-> "ready", client |-> c, out |-> out,
                  result |-> Return(None), requests |-> <<>>]

ModelsCall ==
    /\ call.fn = "get_models"
    /\ call.pc = "ready"
    /\ LET r == get_models(call.client, call.out)
       IN  call' = [call EXCEPT !.pc = "done", !.client = r.client, !.result = r.result,
                                !.requests = r.requests]
    /\ UNCHANGED <<clientVars, probe>>

NextModels == ModelsCall
SpecModels == InitModels /\ [][NextModels]_vars

\* ------------------------------------------------------------ create_client
\* base_url=None (and the empty string): "not base_url" holds.
NoUrl == [stem |-> "", slashes |-> 0]
default_base_url(api_type) ==
    CASE api_type = "openai" -> [stem |-> "https://api.openai.com", slashes |-> 0]
      [] api_type = "anthropic" -> [stem |-> "https://api.anthropic.com", slashes |-> 0]
      [] api_type = "gemini" ->
           [stem |-> "https://generativelanguage.googleapis.com", slashes |-> 0]
      [] api_type = "cohere" -> [stem |-> "https://api.cohere.ai", slashes |-> 0]
      [] api_type = "ollama" -> [stem |-> "http://localhost:11434", slashes |-> 0]
      [] OTHER -> [stem |-> "http://localhost:8080", slashes |-> 0]

unknown_api_type(api_type) ==
    Raise("ValueError", Msg("Unknown API type: ", [src |-> "api_type", text |-> api_type,
                                                  status |-> 0]))

\* An unknown identifier degrades to a generic client.
create_client_degrading(api_type, base_url, token, model, disc) ==
    LET url == IF base_url = NoUrl THEN default_base_url(api_type) ELSE base_url
    IN  IF api_type \in {"openai", "ollama", "anthropic", "gemini", "cohere"}
        THEN Outcome(BaseClient_init(api_type, url, token, model), Return(None), <<>>)
        ELSE IF api_type = "generic"
        THEN Outcome(NoClient, Raise("TypeError", NoMsg), <<>>)
        ELSE GenericClient_init(url, token, disc)

\* disc: the server's answers to the generic client's discovery. The call
\* GenericClient(base_url, token, model) of line 562 passes three arguments
\* to GenericClient.__init__(self, base_url, token): a TypeError, raised
\* before the constructor's body runs.
create_client(api_type, base_url, token, model, disc) ==
    LET url == IF base_url = NoUrl THEN default_base_url(api_type) ELSE base_url
    IN  IF api_type \in {"openai", "ollama", "anthropic", "gemini", "cohere"}
        THEN Outcome(BaseClient_init(api_type, url, token, model), Return(None), <<>>)
        ELSE IF api_type = "generic"
        THEN Outcome(NoClient, Raise("TypeError", NoMsg), <<>>)
        ELSE Outcome(NoClient, unknown_api_type(api_type), <<>>)

ApiTypes == Providers \cup {"mistral", "OpenAI", ""}
FactoryUrls == {NoUrl} \cup BaseUrls

InitFactory ==
    /\ NoSession
    /\ probe = ProbeIdle
    /\ \E api_type \in ApiTypes, base_url \in FactoryUrls, token \in Tokens,
          model \in ModelNames :
          call = [fn |-> "create_client", pc |-> "ready", api_type |-> api_type,
                  base_url |-> base_url, token |-> token, model |-> model,
                  disc |-> NoDiscovery,
                  client |-> NoClient, result |-> Return(None), requests |-> <<>>]

FactoryCall ==
    /\ call.fn = "create_client"
    /\ call.pc = "ready"
    /\ LET r == create_client(call.api_type, call.base_url, call.token, call.model, call.disc)
       IN  call' = [call EXCEPT !.pc = "done", !.client = r.client, !.result = r.result,
                                !.requests = r.requests]
    /\ UNCHANGED <<clientVars, probe>>

NextFactory == FactoryCall
SpecFactory == InitFactory /\ [][NextFactory]_vars

\* ------------------------------------------------- GenericClient(base_url, token)
\* Each candidate path is answered 200, 404 or 503, or the request fails at
\* network level.
DiscoveryAnswers ==
    [exc : {"none"}, status : {200, 404, 503}] \cup {[exc |-> "RequestError", status |-> 0]}

InitDiscover ==
    /\ NoSession
    /\ probe = ProbeIdle
    /\ \E base_url \in BaseUrls, token \in Tokens,
          disc \in [1..Len(test_endpoints) -> DiscoveryAnswers] :
          call = [fn |-> "GenericClient", pc |-> "ready", base_url |-> base_url,
                  token |-> token, disc |-> disc,
                  client |-> NoClient, result |-> Return(None), requests |-> <<>>]

DiscoverCall ==
    /\ call.fn = "GenericClient"
    /\ call.pc = "ready"
    /\ LET r == GenericClient_init(call.base_url, call.token, call.disc)
       IN  call' = [call EXCEPT !.pc = "done", !.client = r.client, !.result = r.result,
                                !.requests = r.requests]
    /\ UNCHANGED <<clientVars, probe>>

NextDiscover == DiscoverCall
SpecDiscover == InitDiscover /\ [][NextDiscover]_vars

\* ------------------------------------------- GenericClient.send_message
\* A value of the JSON body: a string (text), or an object (text is its
\* str(), content the value under its 'content' key, NoKey when it has none).
StrValue(text) == [kind |-> "str", text |-> text, content |-> NoKey]
DictValue(repr, content) == [kind |-> "dict", text |-> repr, content |-> content]
NoReply == [kind |-> "none", text |-> "None", content |-> NoKey]     \* reply = None

reply_keys == <<"response", "message", "text", "reply", "answer">>

\* The loop over the reply keys: the first key present in data decides.
RECURSIVE reply_from(_, _)
reply_from(data, keys) ==
    IF keys = <<>> THEN NoReply
    ELSE IF Head(keys) \in DOMAIN data
    THEN LET reply == data[Head(keys)]
         IN  IF reply.kind = "dict" /\ reply.content # NoKey
             THEN StrValue(reply.content)
             ELSE reply
    ELSE reply_from(data, Tail(keys))

\* "if reply:" - a non-empty string or a non-empty object.
reply_always_truthy(reply) == reply.kind # "none"

reply_truthy(reply) == reply.kind = "dict" \/ (reply.kind = "str" /\ reply.text # "")

\* Every payload is tried, the last usable answer wins.
RECURSIVE send_payloads_to_the_end(_, _, _, _, _)
send_payloads_to_the_end(c, text, outs, i, requests) ==
    IF i > Len(generic_payloads(text))
    THEN LET usable == {k \in 1..Len(outs) :
                          /\ outs[k].exc = "none" /\ outs[k].status < 400 /\ outs[k].json
                          /\ reply_truthy(reply_from(outs[k].data, reply_keys))}
         IN  IF usable = {} THEN Outcome(c, generic_exhausted, requests)
             ELSE LET k == CHOOSE k \in usable : \A j \in usable : j <= k
                      reply == reply_from(outs[k].data, reply_keys)
                  IN  Outcome([c EXCEPT !.history = append_exchange(@, text, reply.text)],
                              Return(reply.text), requests)
    ELSE send_payloads_to_the_end(c, text, outs, i + 1,
            Append(requests, Request("POST", <<c.base_url, c.chat_endpoint>>, get_headers(c),
                                     generic_payloads(text)[i])))

\* The payload loop from payload i on; outs[i] is the server's answer to
\* payload i. Any exception inside the loop body is caught (line 360).
RECURSIVE send_payloads(_, _, _, _, _)
send_payloads(c, text, outs, i, requests) ==
    IF i > Len(generic_payloads(text))
    THEN Outcome(c, generic_exhausted, requests)                      \* line 364
    ELSE LET req == Request("POST", <<c.base_url, c.chat_endpoint>>, get_headers(c),
                            generic_payloads(text)[i])
             out == outs[i]
             reply == reply_from(out.data, reply_keys)
         IN  IF /\ out.exc = "none"
                /\ out.status < 400
                /\ out.json
                /\ reply_truthy(reply)
             THEN Outcome([c EXCEPT !.history = append_exchange(@, text, reply.text)],
                          Return(reply.text), Append(requests, req))
             ELSE send_payloads(c, text, outs, i + 1, Append(requests, req))

GenericClient_send_message(c, text, outs) == send_payloads(c, text, outs, 1, <<>>)

\* The answers of a generic endpoint to one payload.
NoData == [k \in {} |-> NoReply]
GenericAnswer(status, json, data) ==
    [exc |-> "none", status |-> status, json |-> json, data |-> data]
GenericAnswers ==
    { [exc |-> "RequestError", status |-> 0, json |-> FALSE, data |-> NoData],
      GenericAnswer(500, TRUE, [reply |-> StrValue("hi")]),
      GenericAnswer(200, FALSE, NoData),
      GenericAnswer(200, TRUE, NoData),
      GenericAnswer(200, TRUE, [reply |-> StrValue("hi")]),
      GenericAnswer(200, TRUE, [message |-> DictValue("{'content': 'yo'}", "yo")]),
      GenericAnswer(200, TRUE, [response |-> StrValue(""), reply |-> StrValue("hi")]),
      GenericAnswer(200, TRUE, [answer |-> StrValue("yo"), text |-> StrValue("hi")]),
      GenericAnswer(200, TRUE, [message |-> DictValue("{'role': 'x'}", NoKey)]),
      GenericAnswer(200, TRUE, [text |-> DictValue("{'content': ''}", "")]) }

\* Two generic clients: a new one that discovered /chat, and one that
\* discovered /api/chat and holds one exchange.
GenericClients ==
    { Construct("generic", CallUrl, None, None, NoDiscovery),
      [Construct("generic", CallUrl, "tok", None,
                 [i \in 1..Len(test_endpoints) |->
                     [exc |-> "none", status |-> IF i = 1 THEN 503 ELSE 404]])
         EXCEPT !.history = append_exchange(<<>>, "a", "r1")] }

InitGeneric ==
    /\ NoSession
    /\ probe = ProbeIdle
    /\ \E c \in GenericClients, outs \in [1..4 -> GenericAnswers] :
          call = [fn |-> "GenericClient.send_message", pc |-> "ready", before |-> c,
                  text |-> "b", outs |-> outs,
                  client |-> c, result |-> Return(None), requests |-> <<>>]

GenericSendCall ==
    /\ call.fn = "GenericClient.send_message"
    /\ call.pc = "ready"
    /\ LET r == GenericClient_send_message(call.client, call.text, call.outs)
       IN  call' = [call EXCEPT !.pc = "done", !.client = r.client, !.result = r.result,
                                !.requests = r.requests]
    /\ UNCHANGED <<clientVars, probe>>

NextGeneric == GenericSendCall
SpecGeneric == InitGeneric /\ [][NextGeneric]_vars

\* ------------------------------------------------------- parse_host_input
\* A string is the sequence of its characters.
Digits == {"0", "1", "2", "3", "4", "5", "6", "7", "8", "9"}
DigitValue(ch) ==
    CASE ch = "0" -> 0 [] ch = "1" -> 1 [] ch = "2" -> 2 [] ch = "3" -> 3 [] ch = "4" -> 4
      [] ch = "5" -> 5 [] ch = "6" -> 6 [] ch = "7" -> 7 [] ch = "8" -> 8 [] ch = "9" -> 9

\* sub in s, and s.find(sub) (1-based; 0 when absent)
StartsAt(sub, s, i) ==
    /\ i + Len(sub) - 1 <= Len(s)
    /\ \A k \in 1..Len(sub) : s[i + k - 1] = sub[k]
Contains(sub, s) == \E i \in 1..Len(s) : StartsAt(sub, s, i)
Find(sub, s) ==
    IF Contains(sub, s)
    THEN CHOOSE i \in 1..Len(s) : StartsAt(sub, s, i) /\ \A j \in 1..(i - 1) : ~StartsAt(sub, s, j)
    ELSE 0
\* s.count(ch)
Count(ch, s) == Cardinality({i \in 1..Len(s) : s[i] = ch})
\* s.replace(ch, '')
Remove(ch, s) == SelectSeq(s, LAMBDA c : c # ch)
\* s.isdigit()
isdigit(s) == s # <<>> /\ \A i \in 1..Len(s) : s[i] \in Digits
\* int(s) of a string of digits
RECURSIVE int(_)
int(s) == IF s = <<>> THEN 0 ELSE 10 * int(SubSeq(s, 1, Len(s) - 1)) + DigitValue(s[Len(s)])
\* s.lower(), on the letters that occur in upper case
LowerChar(ch) ==
    CASE ch = "H" -> "h" [] ch = "T" -> "t" [] ch = "P" -> "p" [] ch = "S" -> "s"
      [] ch = "E" -> "e" [] OTHER -> ch
lower(s) == [i \in 1..Len(s) |-> LowerChar(s[i])]
\* s[i:] and s[:i-1]
From(s, i) == SubSeq(s, i, Len(s))
Upto(s, i) == SubSeq(s, 1, i)

\* Rest(v) with v evaluated once (a LET definition is evaluated at each use)
With(v, Rest(_)) == CHOOSE r \in {Rest(x) : x \in {v}} : TRUE

NoHost == <<>>
Parsed(hostname, port, use_https) ==
    [kind |-> "return", hostname |-> hostname, port |-> port, use_https |-> use_https]
ParseRaises == [kind |-> "ValueError", hostname |-> NoHost, port |-> NoPort, use_https |-> FALSE]

\* urllib.parse.urlparse of the standard library, for a string that contains
\* "://": scheme, netloc, hostname and port (port "bad": .port raises
\* ValueError for a port that is no number or exceeds 65535).
SchemeChars ==
    Digits \cup {"a", "b", "c", "d", "e", "f", "g", "h", "i", "j", "k", "l", "m", "n", "o", "p",
                 "q", "r", "s", "t", "u", "v", "w", "x", "y", "z", "H", "T", "P", "S", "E",
                 "+", "-", "."}
MaxPortNumber == 65535
BadPort == -2
urlparse(url) ==
    With(Find(<<":">>, url), LAMBDA colon :
    With(Upto(url, colon - 1), LAMBDA head :
    With(/\ colon > 1
         /\ head[1] \notin Digits \cup {"+", "-", "."}
         /\ \A i \in 1..Len(head) : head[i] \in SchemeChars, LAMBDA has_scheme :
    With(IF has_scheme THEN From(url, colon + 1) ELSE url, LAMBDA rest :
    With(From(rest, 3), LAMBDA after :
    With({i \in 1..Len(after) : after[i] \in {"/", "?", "#"}}, LAMBDA stops :
    With(IF ~(Len(rest) >= 2 /\ rest[1] = "/" /\ rest[2] = "/") THEN <<>>
         ELSE IF stops = {} THEN after
         ELSE Upto(after, (CHOOSE i \in stops : \A j \in stops : i <= j) - 1), LAMBDA netloc :
    With({i \in 1..Len(netloc) : netloc[i] = "@"}, LAMBDA at :
    With(IF at = {} THEN netloc
         ELSE From(netloc, (CHOOSE i \in at : \A j \in at : j <= i) + 1), LAMBDA hostinfo :
    With(Find(<<":">>, hostinfo), LAMBDA c :
    With(IF c = 0 THEN hostinfo ELSE Upto(hostinfo, c - 1), LAMBDA host :
    With(IF c = 0 THEN <<>> ELSE From(hostinfo, c + 1), LAMBDA port :
        [scheme |-> IF has_scheme THEN lower(head) ELSE <<>>,
         netloc |-> netloc, hostname |-> lower(host),
         port |-> IF port = <<>> THEN NoPort
                  ELSE IF isdigit(port) /\ int(port) <= MaxPortNumber THEN int(port)
                  ELSE BadPort]))))))))))))

\* return hostname, port, False (line 178), and the same with use_https
\* set for a dotted host name.
split_result_tls_for_names(hostname, port_str) ==
    Parsed(hostname, int(port_str), Contains(<<".">>, hostname))

split_result(hostname, port_str) == Parsed(hostname, int(port_str), FALSE)

\* The test of line 184, and one that takes every dotted input for a name.
looks_like_name_any_dot(host_input) == Contains(<<".">>, host_input)

looks_like_name(host_input) ==
    /\ Contains(<<".">>, host_input)
    /\ ~isdigit(Remove("-", Remove(".", host_input)))

parse_host_input(host_input) ==
    IF Contains(<<":", "/", "/">>, host_input)                       \* line 166
    THEN LET parsed == urlparse(host_input)
         IN  IF parsed.port = BadPort THEN ParseRaises               \* line 169
             ELSE Parsed(IF parsed.hostname # <<>> THEN parsed.hostname ELSE parsed.netloc,
                         parsed.port, parsed.scheme = <<"h", "t", "t", "p", "s">>)
    ELSE
    \* rsplit(':', 1): cut is the position of the last colon
    LET cut == CHOOSE i \in 0..Len(host_input) :
                    /\ i # 0 => host_input[i] = ":"
                    /\ \A j \in (i + 1)..Len(host_input) : host_input[j] # ":"
                    /\ i = 0 => Count(":", host_input) = 0
        port_str == From(host_input, cut + 1)
    IN  IF Count(":", host_input) = 1 /\ isdigit(port_str)           \* lines 174-178
        THEN split_result(Upto(host_input, cut - 1), port_str)
        ELSE IF looks_like_name(host_input)                           \* line 184
        THEN Parsed(host_input, NoPort, TRUE)
        ELSE Parsed(host_input, NoPort, FALSE)

\* The inputs: [scheme://] host [:port] [path]
SchemeParts ==
    { <<>>, <<"h", "t", "t", "p", ":", "/", "/">>,
      <<"h", "t", "t", "p", "s", ":", "/", "/">>,
      <<"H", "T", "T", "P", "S", ":", "/", "/">>,
      <<"w", "s", ":", "/", "/">> }
HostParts ==
    { <<"l", "o", "c", "a", "l", "h", "o", "s", "t">>,
      <<"a", "p", "i", ".", "e", "x", "a", "m", "p", "l", "e", ".", "c", "o", "m">>,
      <<"1", "0", ".", "0", ".", "0", ".", "1">>,
      <<>>,
      <<".">>,
      <<"m", "y", "-", "h", "o", "s", "t">>,
      <<"1", "-", "2", ".", "3">>,
      <<"a", ":", "b">>,
      <<"u", "@", "h">> }
PortParts ==
    { <<>>, <<":", "8", "0">>,
      <<":", "8", "0", "8", "0">>,
      <<":", "0", "4", "4", "3">>,
      <<":">>,
      <<":", "a", "b">>,
      <<":", "9", "9", "9", "9", "9">>,
      <<":", "0">> }
PathParts == { <<>>, <<"/", "v", "1">> }
HostInputs ==
    {s \o h \o p \o q : s \in SchemeParts, h \in HostParts, p \in PortParts, q \in PathParts}

InitParse ==
    /\ NoSession
    /\ probe = ProbeIdle
    /\ \E host_input \in HostInputs :
          call = [fn |-> "parse_host_input", pc |-> "ready", host_input |-> host_input,
                  result |-> Parsed(NoHost, NoPort, FALSE)]

ParseCall ==
    /\ call.fn = "parse_host_input"
    /\ call.pc = "ready"
    /\ call' = [call EXCEPT !.pc = "done", !.result = parse_host_input(call.host_input)]
    /\ UNCHANGED <<clientVars, probe>>

NextParse == ParseCall
SpecParse == InitParse /\ [][NextParse]_vars

\* ---------------------------------------------- one call of send_message
\* ui.py line 179: the chat loop takes a failure of send_message for an
\* authentication failure when str(e).lower() contains 'auth' or 'token'.
\* The reason phrase of 401 is "Unauthorized".
auth_in_chat_message(m) ==
    \/ m.prefix = "Authentication failed: "
    \/ m.detail.src = "status" /\ m.detail.status = 401

InitSend ==
    /\ NoSession
    /\ probe = ProbeIdle
    /\ \E c \in CallClients, text \in Texts, out \in CheckOutcomes :
          /\ c.kind # "generic"
          /\ call = [fn |-> "send_message", pc |-> "ready", client |-> c, text |-> text,
                     out |-> out, result |-> Return(None), requests |-> <<>>]

SendCall ==
    /\ call.fn = "send_message"
    /\ call.pc = "ready"
    /\ LET r == send_message(call.client, call.text, call.out)
       IN  call' = [call EXCEPT !.pc = "done", !.client = r.client, !.result = r.result,
                                !.requests = r.requests]
    /\ UNCHANGED <<clientVars, probe>>

NextSend == SendCall
SpecSend == InitSend /\ [][NextSend]_vars

\* ------------------------------------------------------------ a chat session
\* The chat loop of run_chat on one client that holds a token: messages
\* are sent and the history is cleared. call.exchanges is the record of the
\* exchanges that succeeded since the last /clear, call.sent_after its value
\* when the last message was sent.
ChatClients ==
    {Construct(kind, CallUrl, "tok", None, NoDiscovery) : kind \in Providers \ {"generic"}}

InitChat ==
    /\ self \in ChatClients
    /\ discovery = NoDiscovery
    /\ pending = Idle
    /\ last = Done("init", "", <<>>, Return(None), <<>>)
    /\ fresh = NoFresh
    /\ freshLast = NoLast
    /\ probe = ProbeIdle
    /\ call = [fn |-> "run_chat", pc |-> "loop", exchanges |-> <<>>, sent_after |-> <<>>]

\* response = client.send_message(user_input) (ui.py line 169)
ChatSend ==
    /\ call.fn = "run_chat"
    /\ Len(self.history) + 2 <= MaxHist
    /\ \E text \in Texts, out \in Outcomes :
          LET r == send_message(self, text, out)
          IN  /\ self' = r.client
              /\ last' = Done("send_message", text, self.history, r.result, r.requests)
              /\ call' = [call EXCEPT
                            !.sent_after = call.exchanges,
                            !.exchanges = IF r.result.kind = "return"
                                          THEN append_exchange(@, text, r.result.value)
                                          ELSE @]
    /\ UNCHANGED <<discovery, pending, fresh, freshLast, probe>>

\* /clear (ui.py lines 154-157)
ChatClear ==
    /\ call.fn = "run_chat"
    /\ self' = clear_history(self)
    /\ last' = Done("clear_history", "", self.history, Return(None), <<>>)
    /\ call' = [call EXCEPT !.exchanges = <<>>, !.sent_after = <<>>]
    /\ UNCHANGED <<discovery, pending, fresh, freshLast, probe>>

NextChat == ChatSend \/ ChatClear
SpecChat == InitChat /\ [][NextChat]_vars

\* ------------------------------------------------------------------ cli.main
\* One run of the command line: call holds the position in main (pc), the
\* options, the results of the test_connection calls made so far and the
\* way the run ended; self is the client once create_client has returned.
Overrides == {None} \cup Providers \cup {"mistral"}
PromptedTokens == {"tok", ""}
NotCalled == Return(None)
\* parsed_host, final_port and use_https of lines 31-34: what parse_host_input
\* and --port make of the command line.
CliTargets ==
    [host : {DetectHost, "localhost"}, port : {NoPort, 8080, 11434}, use_https : BOOLEAN]
\* The string the f-string of build_base_url yields (a port of None prints
\* as "None"), as a base URL with no trailing slash.
url_text(url) ==
    [stem |-> url[1] \o url[2] \o url[3] \o
              (IF Len(url) < 5 THEN ""
               ELSE url[4] \o (IF url[5] = NoPort THEN "None" ELSE ToString(url[5]))),
     slashes |-> 0]
\* What is behind the host the user named.
CliServers ==
    {[live |-> l, mode |-> "head"] : l \in {{}, {Conn(FALSE, 8080, "/v1/models")}}}

InitCli ==
    /\ NoSession
    /\ probe = ProbeIdle
    /\ \E override \in Overrides, token \in Tokens, model \in ModelNames,
          target \in CliTargets, server \in CliServers :
          call = [fn |-> "main", pc |-> "detect", override |-> override, supplied |-> token,
                  token |-> token, model |-> model, target |-> target, server |-> server,
                  api_type |-> None,
                  checks |-> 0, first |-> NotCalled, second |-> NotCalled,
                  prompted |-> FALSE, exit |-> "none"]

Exit(c, how) == [c EXCEPT !.pc = "exit", !.exit = how]

\* Step 1 (lines 43-67). detect_api(parsed_host, final_port, use_https, token)
\* of line 56 passes four arguments to detect_api(host, port, prefer_https):
\* TypeError before the body of detect_api runs, caught at line 145.
CliDetect ==
    /\ call.fn = "main" /\ call.pc = "detect"
    /\ IF Truthy(call.override)
       THEN call' = [call EXCEPT !.pc = "create", !.api_type = call.override]
       ELSE call' = Exit(call, "Error: TypeError")
    /\ UNCHANGED <<clientVars, probe>>

\* Step 2 (line 70); with an override api_info['base_url'] is None.
CliCreate ==
    /\ call.fn = "main" /\ call.pc = "create"
    /\ LET r == create_client(call.api_type, NoUrl, call.token, call.model, NoDiscovery)
       IN  IF r.result.kind = "raise"
           THEN /\ call' = Exit(call, "Error: create_client")
                /\ UNCHANGED self
           ELSE /\ call' = [call EXCEPT !.pc = "check"]
                /\ self' = r.client
    /\ UNCHANGED <<discovery, pending, last, fresh, freshLast, probe>>

\* Lines 76-93: what main does with a failure e of the first
\* test_connection, given the --token option.
on_check_failure_always_retries(e, token) ==
    IF auth_in_message(e.msg) THEN "prompt" ELSE "Connection failed"

on_check_failure(e, token) ==
    IF auth_in_message(e.msg)
    THEN IF ~Truthy(token) THEN "prompt" ELSE "Authentication failed"
    ELSE "Connection failed"

\* Step 3, first test_connection (lines 73-75).
CliCheck ==
    /\ call.fn = "main" /\ call.pc = "check"
    /\ \E out \in CheckOutcomes :
          LET r == test_connection(self, out)
              c == [call EXCEPT !.checks = @ + 1, !.first = r.result]
          IN  /\ self' = r.client
              /\ IF r.result.kind = "return"
                 THEN call' = [c EXCEPT !.pc = "models"]
                 ELSE LET next == on_check_failure(r.result, call.token)
                      IN  IF next = "prompt"
                          THEN call' = [c EXCEPT !.pc = "prompt"]
                          ELSE call' = Exit(c, next)
    /\ UNCHANGED <<discovery, pending, last, fresh, freshLast, probe>>

\* token = prompt_for_token(); client.token = token (lines 80-82)
CliPrompt ==
    /\ call.fn = "main" /\ call.pc = "prompt"
    /\ \E t \in PromptedTokens :
          /\ call' = [call EXCEPT !.pc = "recheck", !.token = t, !.prompted = TRUE]
          /\ self' = [self EXCEPT !.token = t]
    /\ UNCHANGED <<discovery, pending, last, fresh, freshLast, probe>>

\* The second test_connection (lines 83-87).
CliRecheck ==
    /\ call.fn = "main" /\ call.pc = "recheck"
    /\ \E out \in CheckOutcomes :
          LET r == test_connection(self, out)
              c == [call EXCEPT !.checks = @ + 1, !.second = r.result]
          IN  /\ self' = r.client
              /\ IF r.result.kind = "return"
                 THEN call' = [c EXCEPT !.pc = "models"]
                 ELSE call' = Exit(c, "Authentication failed")
    /\ UNCHANGED <<discovery, pending, last, fresh, freshLast, probe>>

\* Step 4, model selection (lines 96-136): a single listed model is taken,
\* otherwise the user picks one of the list or interrupts.
CliModels ==
    /\ call.fn = "main" /\ call.pc = "models"
    /\ IF Truthy(self.model)
       THEN call' = [call EXCEPT !.pc = "run_chat"] /\ UNCHANGED self
       ELSE \E out \in ModelsOutcomes :
              LET r == get_models(self, out)
                  models == r.result.models
              IN  IF r.result.kind = "raise"
                  THEN call' = Exit(call, "Error: models") /\ UNCHANGED self
                  ELSE IF Len(models) = 1
                  THEN /\ self' = [self EXCEPT !.model = models[1]]
                       /\ call' = [call EXCEPT !.pc = "run_chat"]
                  ELSE \/ \E i \in 1..Len(models) :
                            /\ self' = [self EXCEPT !.model = models[i]]
                            /\ call' = [call EXCEPT !.pc = "run_chat"]
                       \/ call' = Exit(call, "Cancelled") /\ UNCHANGED self
    /\ UNCHANGED <<discovery, pending, last, fresh, freshLast, probe>>

\* Step 5 (line 140): run_chat(client, api_info, render_markdown, multiline)
\* passes four arguments to run_chat(client, api_info): TypeError, caught at
\* line 145.
CliRunChat ==
    /\ call.fn = "main" /\ call.pc = "run_chat"
    /\ call' = Exit(call, "Error: TypeError")
    /\ UNCHANGED <<clientVars, probe>>

NextCli ==
    \/ CliDetect
    \/ CliCreate
    \/ CliCheck
    \/ CliPrompt
    \/ CliRecheck
    \/ CliModels
    \/ CliRunChat

SpecCli == InitCli /\ [][NextCli]_vars

\* ================================================================ claims
IsPrefix(p, q) == Len(p) <= Len(q) /\ SubSeq(q, 1, Len(p)) = p

SendFailed == last.op = "send_message" /\ last.result.kind = "raise"
SendReturned == last.op = "send_message" /\ last.result.kind = "return"

\* C1: whenever send_message fails (error status, unreadable body or
\* transport error), the client's history after the call equals its history
\* before the call.
C1_FailedSendKeepsHistory == SendFailed => self.history = last.before

\* C2: in every reachable state the history has even length and alternates
\* roles starting with user: entry 2k-1 is a user entry, entry 2k an
\* assistant entry.
C2_HistoryAlternates ==
    /\ Len(self.history) % 2 = 0
    /\ \A i \in 1..Len(self.history) :
          self.history[i].role = IF i % 2 = 1 THEN "user" ELSE "assistant"

\* C3: a successful send_message(text) returning r leaves the history equal
\* to the history before the call followed by exactly the user entry for
\* text and then the assistant entry for r.
C3_SuccessAppendsPair ==
    SendReturned =>
        self.history = last.before \o <<[role |-> "user", content |-> last.text],
                                        [role |-> "assistant", content |-> last.result.value]>>

C3_Witness ==
    /\ SendReturned
    /\ self.kind = "cohere"
    /\ last.before # <<>>
    /\ last.text # last.before[1].content

\* C4: clear_history, in any state, leaves the history empty and base_url,
\* token, model and the generic client's chat endpoint unchanged.
C4_ClearKeepsConfig ==
    [][ClearHistory =>
          /\ self'.history = <<>>
          /\ self'.kind = self.kind
          /\ self'.base_url = self.base_url
          /\ self'.token = self.token
          /\ self'.model = self.model
          /\ self'.chat_endpoint = self.chat_endpoint]_vars

C4_Witness ==
    /\ last.op = "clear_history"
    /\ last.before # <<>>
    /\ self.kind = "generic"
    /\ self.chat_endpoint = "/message"
    /\ self.token = "tok"
    /\ self.model = "m1"

C6_HistoryGrows ==
    last.op # "clear_history" => IsPrefix(last.before, self.history)

C6_Witness ==
    /\ SendFailed
    /\ last.before # <<>>
    /\ last.requests # <<>>

\* ---------------------------------------------------------- the probe
ProbeDone == probe.pc = "done" /\ probe.httpx
HeadOut == probe.srv["HEAD"]
GetOut == probe.srv["GET"]
Answered(out) == out.exc = "none"
Issued(method) == \E i \in 1..Len(probe.result.log) : probe.result.log[i].method = method

\* C7: try_connection reports reachable when the server's answer has a
\* status below 500 and not reachable when the answer has a status >= 500 or
\* the connection fails; the answer is the one to HEAD, or the one to GET
\* when HEAD was answered with 405.
C7_ProbeClassification ==
    ProbeDone =>
        LET answer == IF Answered(HeadOut) /\ HeadOut.status = 405 THEN GetOut ELSE HeadOut
        IN  probe.result.ok <=> (Answered(answer) /\ answer.status < 500)

C9_GetOnlyAfter405 ==
    ProbeDone =>
        /\ Issued("GET") => (Answered(HeadOut) /\ HeadOut.status = 405)
        /\ (~Answered(HeadOut) \/ HeadOut.status >= 500) =>
              (Len(probe.result.log) = 1 /\ ~probe.result.ok)

\* C10: whatever the HEAD and GET attempts do, try_connection raises
\* nothing and returns a (bool, response-or-None) pair; it returns
\* (False, None) when every attempt failed at network level.
C10_ProbeNeverRaises ==
    ProbeDone =>
        /\ probe.result.raised = "none"
        /\ probe.result.ok \in BOOLEAN
        /\ probe.result.ok <=> probe.result.response # NoResponse
        /\ (/\ ~Answered(HeadOut)
            /\ (Issued("GET") => ~Answered(GetOut))) =>
              (~probe.result.ok /\ probe.result.response = NoResponse)

C10_Witness ==
    /\ ProbeDone
    /\ HeadOut.exc = "RequestError"
    /\ GetOut.exc = "OtherError"
    /\ Len(probe.result.log) = 2

\* ---------------------------------------------------------------- detection
DetectDone == call.fn = "detect_api" /\ call.pc = "done"

\* The order the candidates are stated to be tried in: ports, then TLS
\* before plaintext, then the signatures as declared, then their paths.
FallbackPorts == <<8080, 8000, 3000, 5000, 11434, 80, 443>>
StatedPorts(port) == IF port = NoPort THEN FallbackPorts ELSE <<port>>
SignaturePaths ==
    << <<"openai", "/v1/models">>, <<"openai", "/v1/chat/completions">>,
       <<"anthropic", "/v1/messages">>, <<"anthropic", "/v1/models">>,
       <<"ollama", "/api/tags">>, <<"ollama", "/api/generate">>,
       <<"gemini", "/v1beta/models">>,
       <<"gemini", "/v1beta/models/gemini-pro:generateContent">>,
       <<"cohere", "/v1/chat">>,
       <<"generic", "/chat">>, <<"generic", "/api/chat">>,
       <<"generic", "/message">>, <<"generic", "/api/message">> >>
Candidates(ports) ==
    LET n == Len(SignaturePaths)
    IN  [k \in 1..(Len(ports) * 2 * n) |->
            LET port == ports[((k - 1) \div (2 * n)) + 1]
                https == ((k - 1) % (2 * n)) < n
                sig == SignaturePaths[((k - 1) % n) + 1]
            IN  [port |-> port, https |-> https, api_type |-> sig[1], endpoint |-> sig[2],
                 url |-> build_base_url(call.host, port, https) \o <<sig[2]>>]]
Reachable(cand) == try_connection(TRUE, cand.url, ServerFor(call.server, cand.url)).ok
FirstReachable(cands) ==
    IF \E k \in DOMAIN cands : Reachable(cands[k])
    THEN CHOOSE k \in DOMAIN cands :
            Reachable(cands[k]) /\ \A j \in 1..(k - 1) : ~Reachable(cands[j])
    ELSE 0
ProbedAs(entry, cand) ==
    /\ entry.port = cand.port /\ entry.https = cand.https
    /\ entry.api_type = cand.api_type /\ entry.endpoint = cand.endpoint
    /\ entry.url = cand.url
InOrderUpToFirst(cands) ==
    LET first == FirstReachable(cands)
        r == call.result
    IN  /\ r.found <=> first # 0
        /\ Len(r.log) = IF first = 0 THEN Len(cands) ELSE first
        /\ \A k \in DOMAIN r.log : ProbedAs(r.log[k], cands[k])
        /\ first # 0 =>
              /\ r.api_type = cands[first].api_type
              /\ r.port = cands[first].port
              /\ r.base_url = build_base_url(call.host, cands[first].port, cands[first].https)

\* C11: a finished detect_api call has probed the candidates in the stated
\* nested order (the explicit port alone if one was given, else the fallback
\* ports; TLS first; signatures as declared; paths as declared), stopped at
\* the first reachable one and returned it.
C11_FirstReachableInOrder == DetectDone => InOrderUpToFirst(Candidates(StatedPorts(call.port)))

DeclaredOrder == <<"openai", "anthropic", "ollama", "gemini", "cohere", "generic">>
DeclaredAt(t) == CHOOSE i \in DOMAIN DeclaredOrder : DeclaredOrder[i] = t
\* The host answers reachably for signature t at this port over this scheme.
AnswersAt(t, port, https) ==
    \E i \in DOMAIN SignaturePaths :
        /\ SignaturePaths[i][1] = t
        /\ LET url == build_base_url(call.host, port, https) \o <<SignaturePaths[i][2]>>
           IN  try_connection(TRUE, url, ServerFor(call.server, url)).ok
ReturnedHttps == call.result.base_url[1] = "https"

\* C12 as stated: when the host answers for several signatures at the
\* returned port, over whichever scheme each one answers, the result is the
\* earliest declared of them.
C12_EarliestAtPort ==
    (DetectDone /\ call.result.found) =>
        \A t \in Providers :
            (\E https \in BOOLEAN : AnswersAt(t, call.result.port, https))
                => DeclaredAt(call.result.api_type) <= DeclaredAt(t)

\* C12 (amended): when the host answers for several signatures at the
\* returned port over the scheme of the returned base URL, the result is the
\* earliest declared of them.
C12_EarliestAtBaseUrl ==
    (DetectDone /\ call.result.found) =>
        \A t \in Providers :
            AnswersAt(t, call.result.port, ReturnedHttps)
                => DeclaredAt(call.result.api_type) <= DeclaredAt(t)

C12_Witness ==
    /\ DetectDone /\ call.result.found
    /\ \E t \in Providers :
          /\ t # call.result.api_type
          /\ AnswersAt(t, call.result.port, ReturnedHttps)

\* C13: a finished detect_api call returns None exactly when no candidate
\* (port, scheme, signature, path) of the ports it tries is reachable; it
\* has then probed every one of them, and a returned detection always
\* comes with a probe that succeeded for the returned type.
C13_NoneIffNothingReachable ==
    DetectDone =>
        LET cands == Candidates(ports_to_try(call.port))
            r == call.result
        IN  /\ ~r.found <=> \A k \in DOMAIN cands : ~Reachable(cands[k])
            /\ ~r.found <=> \A k \in DOMAIN r.log : ~r.log[k].success
            /\ ~r.found =>
                  /\ Len(r.log) = Len(cands)
                  /\ \A k \in DOMAIN cands : ProbedAs(r.log[k], cands[k])
                  /\ r.api_type = None /\ r.base_url = NoBaseUrl

C13_Witness ==
    /\ DetectDone /\ ~call.result.found
    /\ call.server.live # {}
    /\ Len(call.result.log) = Len(Candidates(ports_to_try(call.port)))

\* C14: a returned detection {type, host, port, base_url} comes with a probe
\* of this call, at base_url + p for a path p of the returned type, that was
\* answered with a status below 500 at the returned port; the host is the one
\* asked for and base_url is built from that host and port.
C14_ResultWasProbed ==
    (DetectDone /\ call.result.found) =>
        LET r == call.result
        IN  /\ r.host = call.host
            /\ \E https \in BOOLEAN : r.base_url = build_base_url(r.host, r.port, https)
            /\ \E k \in DOMAIN r.log, i \in DOMAIN SignaturePaths :
                  /\ SignaturePaths[i][1] = r.api_type
                  /\ r.log[k].url = r.base_url \o <<SignaturePaths[i][2]>>
                  /\ r.log[k].port = r.port
                  /\ r.log[k].success
                  /\ LET p == try_connection(TRUE, r.log[k].url,
                                             ServerFor(call.server, r.log[k].url))
                     IN  p.ok /\ p.response.status < 500

C14_Witness ==
    /\ DetectDone /\ call.result.found
    /\ call.server.mode = "get"
    /\ call.result.base_url[1] = "https"
    /\ Len(call.result.log) > 1

\* --------------------------------------------------------- build_base_url
UrlDone == call.fn = "build_base_url" /\ call.pc = "done"
SchemeDefault(use_https) == IF use_https THEN 443 ELSE 80

\* C15: build_base_url returns scheme://host, without a port, exactly when
\* the port is the scheme's default (443 with https, 80 with http), and
\* scheme://host:port otherwise.
C15_PortOmittedIffDefault ==
    UrlDone =>
        LET u == call.result
        IN  /\ u[1] = (IF call.use_https THEN "https" ELSE "http")
            /\ u[2] = "://"
            /\ u[3] = call.host
            /\ Len(u) = 3 <=> call.port = SchemeDefault(call.use_https)
            /\ Len(u) # 3 => Len(u) = 5 /\ u[4] = ":" /\ u[5] = call.port
            /\ (call.host = "localhost" /\ call.port = 8080 /\ call.use_https)
                  => u = <<"https", "://", "localhost", ":", 8080>>

C15_Witness ==
    /\ UrlDone
    /\ call.port = SchemeDefault(~call.use_https)
    /\ Len(call.result) = 5

\* ---------------------------------------------------------- test_connection
CheckDone == call.fn = "test_connection" /\ call.pc = "done"
\* The server's answer carries an authentication signal.
AuthSignal(out) == out.exc = "none" /\ (out.status \in {401, 403} \/ out.body.auth)

\* C16: for every provider client, test_connection fails with an
\* authentication error, one the caller tells from other failures, whenever
\* the response has status 401 or 403 or an auth keyword in its body.
C16_AuthSignalIsAuthError ==
    (CheckDone /\ call.requests # <<>> /\ AuthSignal(call.out)) =>
        /\ call.result.kind = "raise"
        /\ auth_in_message(call.result.msg)

\* ---------------------------------------------------------------- get_models
ModelsDone == call.fn = "get_models" /\ call.pc = "done"
Listing == {"openai", "ollama", "gemini"}
Fallbacks ==
    {<<"gpt-3.5-turbo", "gpt-4">>, <<"llama2">>, <<"gemini-pro">>,
     <<"gemini-pro", "gemini-pro-vision">>}
IsSorted(q) == \A i, j \in DOMAIN q : i < j => Rank(q[i]) <= Rank(q[j])
ModelsFailure(out) ==
    \/ out.exc # "none"
    \/ out.status >= 400
    \/ ~out.json
    \/ out.models = <<>>

\* C17: get_models never fails. A listing client (OpenAI, Ollama, Gemini)
\* answers a failed models request (status >= 400, unparseable or empty
\* body, transport error) with its non-empty hardcoded fallback list and a
\* successful one with a sorted non-empty list; the other clients return
\* their fixed list without a request.
C17_ModelsNeverFail ==
    ModelsDone =>
        /\ call.result.kind = "return"
        /\ call.client.kind \in Listing =>
              /\ call.result.models # <<>>
              /\ IsSorted(call.result.models)
              /\ ModelsFailure(call.out) => call.result.models \in Fallbacks
        /\ call.client.kind \notin Listing => call.requests = <<>>

\* ------------------------------------------------------------- create_client
FactoryDone == call.fn = "create_client" /\ call.pc = "done"
GivenUrl == call.base_url # NoUrl

\* C18: for each of the six known provider identifiers, with any
\* combination of base_url, token and model, create_client returns a client
\* of that type carrying the base_url (when one is given), token and model.
C18_KnownProviderConstructs ==
    (FactoryDone /\ call.api_type \in Providers) =>
        /\ call.result.kind = "return"
        /\ call.client.kind = call.api_type
        /\ call.client.token = call.token
        /\ call.client.model = call.model
        /\ GivenUrl => call.client.base_url = rstrip(call.base_url)

\* C19: create_client with an identifier outside the six known providers
\* fails with the unknown-provider error, with or without a base_url,
\* returns no client and issues no request.
C19_UnknownProviderFails ==
    (FactoryDone /\ call.api_type \notin Providers) =>
        /\ call.result.kind = "raise"
        /\ call.result.exc = "ValueError"
        /\ call.result.msg.prefix = "Unknown API type: "
        /\ call.result.msg.detail.text = call.api_type
        /\ call.client = NoClient
        /\ call.requests = <<>>

C19_Witness ==
    /\ FactoryDone /\ call.api_type = "mistral" /\ GivenUrl
    /\ call.result.exc = "ValueError"

\* ------------------------------------------------------- endpoint discovery
DiscoverDone == call.fn = "GenericClient" /\ call.pc = "done"
CandidatePaths == <<"/chat", "/api/chat", "/message", "/api/message", "/completion">>
Responds(i) == call.disc[i].exc = "none" /\ call.disc[i].status < 500
FirstResponding ==
    IF \E i \in DOMAIN CandidatePaths : Responds(i)
    THEN CHOOSE i \in DOMAIN CandidatePaths : Responds(i) /\ \A j \in 1..(i - 1) : ~Responds(j)
    ELSE 0

\* C20: constructing a generic client probes /chat, /api/chat, /message,
\* /api/message, /completion in that order with GET, adopts the first path
\* answered with a status below 500 and, when none is (each is answered
\* >= 500 or fails at network level), still succeeds with the endpoint /chat.
C20_DiscoveryAdoptsFirstOrDefault ==
    DiscoverDone =>
        LET n == IF FirstResponding = 0 THEN Len(CandidatePaths) ELSE FirstResponding
        IN  /\ call.result.kind = "return"
            /\ call.client.kind = "generic"
            /\ Len(call.requests) = n
            /\ \A i \in 1..n :
                  /\ call.requests[i].method = "GET"
                  /\ call.requests[i].url = <<rstrip(call.base_url), CandidatePaths[i]>>
            /\ call.client.chat_endpoint =
                  IF FirstResponding = 0 THEN "/chat" ELSE CandidatePaths[FirstResponding]

\* ------------------------------------------------- generic send_message
GenericDone == call.fn = "GenericClient.send_message" /\ call.pc = "done"
PayloadShapes == <<{"messages", "model"}, {"message", "user"}, {"text"}, {"query"}>>
ReplyKeyOrder == <<"response", "message", "text", "reply", "answer">>
\* The value under the first reply key present in the body of answer i,
\* unwrapped when it is an object with a content key.
HasReplyKey(i) == \E k \in DOMAIN ReplyKeyOrder : ReplyKeyOrder[k] \in DOMAIN call.outs[i].data
RecognizedReply(i) ==
    LET d == call.outs[i].data
        k == CHOOSE k \in DOMAIN ReplyKeyOrder :
                /\ ReplyKeyOrder[k] \in DOMAIN d
                /\ \A j \in 1..(k - 1) : ReplyKeyOrder[j] \notin DOMAIN d
        v == d[ReplyKeyOrder[k]]
    IN  IF v.kind = "dict" /\ v.content # NoKey THEN v.content ELSE v.text
Parses(i) ==
    /\ call.outs[i].exc = "none" /\ call.outs[i].status < 400 /\ call.outs[i].json
    /\ HasReplyKey(i)
Usable(i) == Parses(i) /\ RecognizedReply(i) # ""
FirstOf(P(_)) ==
    IF \E i \in 1..4 : P(i)
    THEN CHOOSE i \in 1..4 : P(i) /\ \A j \in 1..(i - 1) : ~P(j)
    ELSE 0
\* The call posted the first n payload shapes, in order, to the endpoint.
PostedShapes(n) ==
    /\ Len(call.requests) = n
    /\ \A i \in 1..n :
          /\ call.requests[i].method = "POST"
          /\ call.requests[i].url = <<call.before.base_url, call.before.chat_endpoint>>
          /\ DOMAIN call.requests[i].payload = PayloadShapes[i]
StopsAtFirst(P(_)) ==
    LET first == FirstOf(P)
    IN  first # 0 =>
          /\ PostedShapes(first)
          /\ call.result.kind = "return"
          /\ call.result.value = RecognizedReply(first)

\* C21 as stated: the payload shapes are posted in order to the discovered
\* endpoint, and the call stops at the first answer with status < 400, a
\* JSON body and a recognized reply key, returning that reply.
C21_StopsAtFirstParsed == GenericDone => StopsAtFirst(Parses)

\* C21 (amended): the payload shapes are posted in order to the discovered
\* endpoint, and the call stops at the first answer with status < 400, a
\* JSON body and a non-empty reply under the first reply key present,
\* returning that reply and posting no further payload.
C21_StopsAtFirstUsable == GenericDone => StopsAtFirst(Usable)

C21_Witness ==
    /\ GenericDone
    /\ FirstOf(Usable) = 3
    /\ call.outs[3].data = [reply |-> StrValue("hi")]
    /\ call.result.value = "hi"
    /\ Len(call.requests) = 3

\* C22: a generic send_message that returns, returns non-empty text; when
\* no payload shape gets a non-empty recognized reply it raises after
\* exactly four requests and leaves the history as it was.
C22_NeverReturnsEmpty ==
    GenericDone =>
        /\ call.result.kind = "return" => call.result.value # ""
        /\ FirstOf(Usable) = 0 =>
              /\ call.result.kind = "raise"
              /\ Len(call.requests) = 4
              /\ call.client.history = call.before.history

C22_Witness ==
    /\ GenericDone
    /\ call.result.kind = "raise"
    /\ \E i \in 1..4 : Parses(i) /\ RecognizedReply(i) = ""
    /\ call.before.history # <<>>

\* --------------------------------------------------------- parse_host_input
ParseDone == call.fn = "parse_host_input" /\ call.pc = "done"
IsUrl(x) == Contains(<<":", "/", "/">>, x)
ColonAt(x) == CHOOSE i \in 1..Len(x) : x[i] = ":"
AllDigits(q) == q # <<>> /\ \A i \in 1..Len(q) : q[i] \in Digits
\* host:port with exactly one colon, no "://" and an all-digit port
IsHostPort(x) ==
    /\ ~IsUrl(x)
    /\ Count(":", x) = 1
    /\ AllDigits(SubSeq(x, ColonAt(x) + 1, Len(x)))

\* C23: for an input host:port with exactly one colon, no "://" and an
\* all-digit port, parse_host_input returns the host part, the port as an
\* integer and use_https = false, dotted domain names included.
C23_HostPortIsPlaintext ==
    (ParseDone /\ IsHostPort(call.host_input)) =>
        LET x == call.host_input
        IN  /\ call.result.kind = "return"
            /\ call.result.hostname = SubSeq(x, 1, ColonAt(x) - 1)
            /\ call.result.port = int(SubSeq(x, ColonAt(x) + 1, Len(x)))
            /\ call.result.use_https = FALSE

C23_Witness ==
    /\ ParseDone
    /\ call.host_input = <<"a", "p", "i", ".", "e", "x", "a", "m", "p", "l", "e", ".", "c", "o", "m", ":", "8", "0", "8", "0">>
    /\ call.result.port = 8080
    /\ ~call.result.use_https

\* C24: for an input containing "://" whose port, if any, is a valid port
\* number, parse_host_input returns what URL parsing yields: use_https is
\* true exactly for the scheme https, the port is the URL's explicit port or
\* absent, and the hostname is the URL's host, without the port.
C24_UrlBranch ==
    (ParseDone /\ IsUrl(call.host_input) /\ urlparse(call.host_input).port # BadPort) =>
        LET url == urlparse(call.host_input)
        IN  /\ call.result.kind = "return"
            /\ call.result.use_https <=> url.scheme = <<"h", "t", "t", "p", "s">>
            /\ call.result.port = url.port
            /\ call.result.hostname = url.hostname
            /\ ~Contains(<<":">>, call.result.hostname)

\* A bare host: no "://" and no single-colon numeric port.
IsBareHost(x) == ~IsUrl(x) /\ ~IsHostPort(x)
OnlyDigitsDotsDashes(x) == \A i \in 1..Len(x) : x[i] \in Digits \cup {".", "-"}
HasDigit(x) == \E i \in 1..Len(x) : x[i] \in Digits

\* C25 as stated: a bare host comes back unchanged with no port, and
\* use_https is true exactly when it contains a dot and is not made only of
\* digits, dots and dashes.
C25_BareHostTlsForNames ==
    (ParseDone /\ IsBareHost(call.host_input)) =>
        /\ call.result.kind = "return"
        /\ call.result.hostname = call.host_input
        /\ call.result.port = NoPort
        /\ call.result.use_https <=>
              (Contains(<<".">>, call.host_input) /\ ~OnlyDigitsDotsDashes(call.host_input))

\* C25 (amended): a bare host comes back unchanged with no port, and
\* use_https is true exactly when it contains a dot and is not made only of
\* digits, dots and dashes with at least one digit.
C25_BareHostTlsUnlessNumeric ==
    (ParseDone /\ IsBareHost(call.host_input)) =>
        /\ call.result.kind = "return"
        /\ call.result.hostname = call.host_input
        /\ call.result.port = NoPort
        /\ call.result.use_https <=>
              /\ Contains(<<".">>, call.host_input)
              /\ ~(OnlyDigitsDotsDashes(call.host_input) /\ HasDigit(call.host_input))

C25_Witness ==
    /\ ParseDone
    /\ call.host_input = <<"1", "0", ".", "0", ".", "0", ".", "1">>
    /\ ~call.result.use_https
    /\ call.result.port = NoPort

SendDone == call.fn = "send_message" /\ call.pc = "done"

\* C27: for every provider, a send_message answered with status 401 or 403,
\* or with a body containing an auth keyword (even with status 200), fails
\* with an authentication error, not with another error or a reply.
C27_SendAuthSignalIsAuthError ==
    (SendDone /\ call.requests # <<>> /\ AuthSignal(call.out)) =>
        /\ call.result.kind = "raise"
        /\ auth_in_chat_message(call.result.msg)

\* ------------------------------------------------------ turns of a request
\* The conversation turns a chat request carries, read off its payload.
TurnsOf(kind, payload) ==
    CASE kind \in {"openai", "anthropic"} -> payload.messages
      [] kind = "gemini" ->
           [i \in 1..Len(payload.contents) |->
               [role |-> IF payload.contents[i].role = "user" THEN "user" ELSE "assistant",
                content |-> payload.contents[i].parts[1].text]]
      [] kind = "cohere" ->
           [i \in 1..Len(payload.chat_history) |->
               [role |-> IF payload.chat_history[i].role = "USER" THEN "user" ELSE "assistant",
                content |-> payload.chat_history[i].message]]
           \o <<[role |-> "user", content |-> payload.message]>>
      [] kind = "ollama" ->
           [i \in 1..(Len(payload.prompt) \div 3) |->
               [role |-> IF payload.prompt[3 * i - 2] = "User: " THEN "user" ELSE "assistant",
                content |-> payload.prompt[3 * i - 1]]]
ChatSent == call.fn = "run_chat" /\ last.op = "send_message" /\ last.requests # <<>>

\* C28: the turns of every chat request are the exchanges that succeeded
\* since the last clear, in order, followed once by the current user
\* message; a message whose send failed is not among them.
C28_TurnsAreSuccessfulExchanges ==
    ChatSent =>
        TurnsOf(self.kind, last.requests[1].payload)
            = Append(call.sent_after, [role |-> "user", content |-> last.text])

\* ------------------------------------------------------ the caller's retry
InMain == call.fn = "main"
Failed(r) == r.kind = "raise"
\* The run has passed the connection check.
PastCheck ==
    \/ call.pc \in {"models", "run_chat"}
    \/ call.checks > 0 /\ call.exit \in {"Error: models", "Cancelled", "Error: TypeError"}

\* C29: in one run test_connection is invoked at most twice; a second
\* invocation comes only after the first failed with an auth-classified
\* error, no token had been supplied, and a token was prompted for and set
\* on the client; when the second fails, or the first fails with a token
\* supplied, the run has exited and never gets past the check.
C29_SingleAuthRetry ==
    InMain =>
        /\ call.checks <= 2
        /\ call.pc = "recheck" \/ call.checks = 2 =>
              /\ Failed(call.first) /\ auth_in_message(call.first.msg)
              /\ ~Truthy(call.supplied)
              /\ call.prompted
              /\ self.token = call.token /\ call.token \in PromptedTokens
        /\ call.checks = 2 /\ Failed(call.second) =>
              call.pc = "exit" /\ call.exit = "Authentication failed"
        /\ call.checks >= 1 /\ Failed(call.first) /\ Truthy(call.supplied) =>
              call.pc = "exit" /\ call.checks = 1
        /\ PastCheck =>
              \/ call.checks = 1 /\ ~Failed(call.first)
              \/ call.checks = 2 /\ ~Failed(call.second)

C29_Witness ==
    /\ InMain
    /\ call.checks = 2
    /\ Failed(call.second)
    /\ call.pc = "exit"

\* The first test_connection failed for a missing or rejected credential:
\* it raised without a request because a token is required, or the server
\* answered 401 or 403.
CredentialFailure(r) ==
    /\ Failed(r)
    /\ \/ r.msg.prefix \in {"API key is required for Gemini", "API token is required for Cohere"}
       \/ r.msg.prefix \in {"Authentication required or invalid token",
                            "Authentication required or invalid API key"}
       \/ r.msg.detail.src = "status" /\ r.msg.detail.status \in {401, 403}

\* C30: when the first test_connection fails for a missing or rejected
\* credential and no token was supplied, the run goes on to prompt for a
\* token and retry; it does not exit with a connection failure.
C30_CredentialFailurePrompts ==
    (InMain /\ call.checks >= 1 /\ CredentialFailure(call.first) /\ ~Truthy(call.supplied)) =>
        /\ call.exit # "Connection failed"
        /\ call.pc = "prompt" \/ call.prompted

\* What detect_api finds for the run's normalized host, port and TLS flag.
CliDetection ==
    detect_api(call.server, call.target.host, call.target.port, call.target.use_https)
CliEnded == InMain /\ call.pc = "exit"
\* The run has created its client: create_client of line 70 has returned.
ClientCreated ==
    /\ InMain
    /\ call.api_type # None
    /\ call.pc # "create"
    /\ call.exit # "Error: create_client"

\* C31: a run without a provider override calls detect_api on the
\* normalized target; when detection finds a match the run has created a
\* client of the detected provider at the detected base URL, and when it
\* finds none the run reports that no compatible API was found and has
\* created no client.
C31_ComposesInSequence ==
    (CliEnded /\ ~Truthy(call.override)) =>
        IF CliDetection.found
        THEN /\ ClientCreated
             /\ self.kind = CliDetection.api_type
             /\ self.base_url = url_text(CliDetection.base_url)
        ELSE /\ call.exit = "No compatible API found"
             /\ ~ClientCreated

\* C32: when a provider is forced with the override, the client's base URL
\* is the one built from the normalized target: the user's hostname, port
\* and TLS flag.
C32_OverrideUsesTarget ==
    (ClientCreated /\ Truthy(call.override)) =>
        self.base_url =
            url_text(build_base_url(call.target.host, call.target.port, call.target.use_https))

\* The probes of a finished detect_api call, and what identifies them.
DetectProbes == DOMAIN call.result.log
Combination(i) ==
    <<call.result.log[i].port, call.result.log[i].https, call.result.log[i].api_type,
      call.result.log[i].endpoint>>
ProbeUrl(i) == call.result.log[i].url
\* The second declaration of a path: /v1/models under anthropic, after openai.
DeclaredAgain(i) ==
    call.result.log[i].api_type = "anthropic" /\ call.result.log[i].endpoint = "/v1/models"
\* The bounds that hold of every call: at most |candidate ports| x 2 x 13
\* probes, 13 being the number of declared paths; no combination of port,
\* scheme, signature and path twice; at most two requests in each probe.
BoundedProbes ==
    /\ Len(SignaturePaths) = 13
    /\ Len(call.result.log) <= Len(ports_to_try(call.port)) * 2 * Len(SignaturePaths)
    /\ Cardinality({Combination(i) : i \in DetectProbes}) = Len(call.result.log)
    /\ \A i \in DetectProbes :
          Len(try_connection(TRUE, ProbeUrl(i), ServerFor(call.server, ProbeUrl(i))).log) <= 2

====
